---- MODULE Spec2Model ----
(***************************************************************************)
(* A model of smartmontools-go (src/smartmontools.go):                     *)
(*   - the device-type resolver inside Client.GetSMARTInfo, run by several *)
(*     goroutines that share the client's deviceTypeCache;                 *)
(*   - the poll loop of Client.RunSelfTestWithProgress, which calls        *)
(*     GetSMARTInfo on every tick;                                         *)
(*   - the message de-duplication cache (messageCache.shouldLog).          *)
(***************************************************************************)
EXTENDS Integers, Sequences, FiniteSets, TLC

(***************************************************************************)
(* Bounds of the model.                                                    *)
(***************************************************************************)
\* largest capability-reported polling time (minutes) the device may report
MaxPollingMinutes == 1
\* the poll loop is explored for expected durations up to this many minutes
MaxExpectedMinutes == 1
\* number of ticks explored beyond the 2x-expected-duration limit
MaxOverTicks == 2
\* the clock of the message cache runs from 0 to MaxNow
MaxNow == 2
\* largest number of USB entries in the embedded drivedb.h
MaxRecords == 2

(***************************************************************************)
(* Strings: strings.ToLower, strings.Contains and the regular expression   *)
(* of extractUSBBridgeID, computed character by character.                 *)
(***************************************************************************)
UpperChars == "ABCDEFGHIJKLMNOPQRSTUVWXYZ"
LowerChars == "abcdefghijklmnopqrstuvwxyz"
HexChars == "0123456789abcdefABCDEF"

CharAt(s, i) == SubSeq(s, i, i)

IsHexAt(s, i) == \E k \in 1..Len(HexChars) : CharAt(HexChars, k) = CharAt(s, i)

ToLowerChar(c) ==
    IF \E k \in 1..Len(UpperChars) : CharAt(UpperChars, k) = c
    THEN CharAt(LowerChars, CHOOSE k \in 1..Len(UpperChars) : CharAt(UpperChars, k) = c)
    ELSE c

RECURSIVE ToLower(_)
ToLower(s) ==
    IF Len(s) = 0 THEN ""
    ELSE ToLowerChar(CharAt(s, 1)) \o ToLower(SubSeq(s, 2, Len(s)))

\* strings.Contains(s, sub)
Contains(s, sub) ==
    \E i \in 1..(Len(s) - Len(sub) + 1) : SubSeq(s, i, i + Len(sub) - 1) = sub

\* s has the literal lit at position i
HasAt(s, i, lit) ==
    /\ i + Len(lit) - 1 <= Len(s)
    /\ SubSeq(s, i, i + Len(lit) - 1) = lit

\* last position of the maximal run of hex digits starting at i (i-1 if none)
RECURSIVE HexRunEnd(_, _)
HexRunEnd(s, i) ==
    IF i <= Len(s) /\ IsHexAt(s, i) THEN HexRunEnd(s, i + 1) ELSE i - 1

BridgeSignature == "Unknown USB bridge"
BridgePrefix == "Unknown USB bridge ["

\* The match of `Unknown USB bridge \[(0x[0-9a-fA-F]+):(0x[0-9a-fA-F]+)`
\* that starts at position i of s: <<vendor, product>>, or <<>> if none.
BridgeMatchAt(s, i) ==
    LET v0 == i + Len(BridgePrefix)
        v1 == HexRunEnd(s, v0 + 2)
        p0 == v1 + 2
        p1 == HexRunEnd(s, p0 + 2)
    IN  IF /\ HasAt(s, i, BridgePrefix)
           /\ HasAt(s, v0, "0x")
           /\ v1 >= v0 + 2
           /\ HasAt(s, v1 + 1, ":")
           /\ HasAt(s, p0, "0x")
           /\ p1 >= p0 + 2
        THEN << SubSeq(s, v0, v1), SubSeq(s, p0, p1) >>
        ELSE << >>

\* re.FindStringSubmatch: the leftmost match
FindBridgeMatch(s) ==
    LET starts == { i \in 1..Len(s) : BridgeMatchAt(s, i) # << >> }
    IN  IF starts = {} THEN << >>
        ELSE BridgeMatchAt(s, CHOOSE i \in starts : \A j \in starts : i <= j)

(***************************************************************************)
(* The outputs of the smartctl command.                                    *)
(***************************************************************************)
BridgeKnownMsg == "/dev/usb0: Unknown USB bridge [0x152D:0x2329 (0x200)]"
BridgeUnknownMsg == "/dev/usb0: Unknown USB bridge [0x048d:0x1234 (0x200)]"
BridgeNoIdMsg == "Unknown USB bridge"
AdvisoryMsg == "Warning: This result is based on an Attribute check."

Messages == { BridgeKnownMsg, BridgeUnknownMsg, BridgeNoIdMsg, AdvisoryMsg }

\* smartInfo.Smartctl: nil, or its Messages
NoMessages == [nil |-> FALSE, messages |-> << >>]
SmartctlVariants ==
    { [nil |-> TRUE, messages |-> << >>],
      NoMessages,
      [nil |-> FALSE, messages |-> << AdvisoryMsg >>],
      [nil |-> FALSE, messages |-> << BridgeKnownMsg >>],
      [nil |-> FALSE, messages |-> << BridgeNoIdMsg >>],
      [nil |-> FALSE, messages |-> << AdvisoryMsg, BridgeUnknownMsg >>] }

\* per message: strings.Contains(msg.String, "Unknown USB bridge")
MsgHasSignature == [ m \in Messages |-> Contains(m, BridgeSignature) ]

\* per message: re.FindStringSubmatch(msg.String)
MsgBridgeMatch == [ m \in Messages |-> FindBridgeMatch(m) ]

NoStatus == "<nil>"
StatusTexts ==
    { "Completed without error",
      "ABORTED by host",
      "Interrupted (host reset)",
      "Aborted: not completed",
      "Self-test routine in progress" }

NoAttr == -1

\* no "remaining_percent" member in the printed status object
NoRemaining == -1

\* The "ata_smart_data" object of the printed document: absent, without
\* "self_test", or with it (no "status" or one with a text) and a table that
\* has attribute 231 (its normalized value) or not.  remaining is the
\* "remaining_percent" member the status object was printed with.
NoAta == [ata |-> FALSE, selfTest |-> FALSE, status |-> NoStatus, attr231 |-> NoAttr,
          remaining |-> NoRemaining]
AtaVariants ==
    { NoAta }
    \cup { [ata |-> TRUE, selfTest |-> FALSE, status |-> NoStatus, attr231 |-> a,
             remaining |-> NoRemaining] :
             a \in { NoAttr, 40 } }
    \cup { [ata |-> TRUE, selfTest |-> TRUE, status |-> s, attr231 |-> a,
             remaining |-> NoRemaining] :
             s \in StatusTexts \cup { NoStatus }, a \in { NoAttr, 150 } }
    \cup { [ata |-> TRUE, selfTest |-> TRUE, status |-> NoStatus, attr231 |-> 40,
             remaining |-> NoRemaining] }
    \cup { [ata |-> TRUE, selfTest |-> TRUE, status |-> "Self-test routine in progress",
             attr231 |-> a, remaining |-> 60] : a \in { NoAttr, 40 } }

\* StatusField.UnmarshalJSON, lines 144-166: the object form is decoded into
\* value, string and passed; every other member of the object is dropped
StatusFieldUnmarshal(ata) == [String |-> ata.status]

DevicePaths == { "/dev/usb0", "/dev/sda" }

\* devicePath arguments spelled like keys of the drivedb map: one that the
\* map holds and one that it does not (GetSMARTInfo takes any string)
KeyShapedPaths == { "usb:0x152d:0x0578", "usb:0x048d:0x1234" }
ArgumentPaths == DevicePaths \cup KeyShapedPaths

NoInfo == [smartctl |-> [nil |-> TRUE, messages |-> << >>], name |-> "", ata |-> NoAta,
           parsed |-> FALSE]

\* the parsed SMARTInfo values a command can print for device path p
Infos(p, atas) ==
    { [smartctl |-> sc, name |-> n, ata |-> a, parsed |-> TRUE] :
        sc \in SmartctlVariants, n \in { "", p }, a \in atas }

\* cmd.Output(): an exit error or not, and output bytes that are empty, not
\* JSON, or JSON
Outputs(p, atas) ==
    { [err |-> e, body |-> b, info |-> NoInfo] : e \in BOOLEAN, b \in { "empty", "garbage" } }
    \cup { [err |-> e, body |-> "json", info |-> i] : e \in BOOLEAN, i \in Infos(p, atas) }

(***************************************************************************)
(* Device-type resolver.                                                   *)
(***************************************************************************)
Callers == { "g1", "g2" }
Poller == "poll"
Threads == Callers \cup { Poller }

NoType == ""
DefaultDeviceType == "sat"

\* the map loadDrivedbAddendum returns: "usb:0xVVVV:0xPPPP" -> device type
DrivedbAddendum ==
    [ k \in { "usb:0x152d:0x2329", "usb:0x152d:0x0578" } |->
        IF k = "usb:0x152d:0x2329" THEN "usbjmicron" ELSE "sat" ]

\* a detection that takes any message for the bridge error
isUnknownUSBBridgeAnyMessage(info) ==
    /\ info.parsed
    /\ ~ info.smartctl.nil
    /\ Len(info.smartctl.messages) > 0

isUnknownUSBBridge(info) ==
    /\ info.parsed
    /\ ~ info.smartctl.nil
    /\ \E i \in 1..Len(info.smartctl.messages) :
          MsgHasSignature[info.smartctl.messages[i]]

extractUSBBridgeID(info) ==
    IF ~ info.parsed \/ info.smartctl.nil THEN ""
    ELSE LET msgs == info.smartctl.messages
             hits == { i \in 1..Len(msgs) : MsgBridgeMatch[msgs[i]] # << >> }
         IN  IF hits = {} THEN ""
             ELSE LET m == MsgBridgeMatch[msgs[CHOOSE i \in hits : \A j \in hits : i <= j]]
                  IN  "usb:" \o ToLower(m[1]) \o ":" \o ToLower(m[2])

\* a lookup that never finds an entry
getCachedDeviceTypeNeverFound(cache, key) == [deviceType |-> NoType, ok |-> FALSE]

getCachedDeviceType(cache, key) ==
    IF key \in DOMAIN cache
    THEN [deviceType |-> cache[key], ok |-> TRUE]
    ELSE [deviceType |-> NoType, ok |-> FALSE]

setCachedDeviceType(cache, key, deviceType) ==
    [ k \in DOMAIN cache \cup { key } |-> IF k = key THEN deviceType ELSE cache[k] ]

\* a result that is the error whatever the device name
FinalResultAlwaysUnsupported(info) == [err |-> "SMART Not Supported", info |-> info]

\* lines 632-638: the result built from the first attempt's parsed output
FinalResult(info) ==
    IF info.name # ""
    THEN [err |-> "nil", info |-> info]
    ELSE [err |-> "SMART Not Supported", info |-> info]

\* a retry that counts as a success without a device name
RetrySucceededUnnamed(out) ==
    /\ (~ out.err \/ out.body # "empty")
    /\ out.body = "json"

\* a retry that counts as a success whatever it printed
RetrySucceededAlways(out) == TRUE

\* lines 614-618: the retry counts as a success
RetrySucceeded(out) ==
    /\ (~ out.err \/ out.body # "empty")
    /\ out.body = "json"
    /\ out.info.name # ""

\* a first attempt that drops the output of a command that exited with an
\* error and printed no bridge message
FirstAttemptDropsOutput(out) ==
    IF ~ out.err
    THEN IF out.body = "json"
         THEN [done |-> TRUE, ret |-> [err |-> "nil", info |-> out.info]]
         ELSE [done |-> TRUE, ret |-> [err |-> "failed to parse SMART info", info |-> NoInfo]]
    ELSE IF out.body = "json" /\ isUnknownUSBBridge(out.info)
         THEN [done |-> FALSE, ret |-> [err |-> "nil", info |-> out.info]]
         ELSE [done |-> TRUE, ret |-> [err |-> "failed to get SMART info", info |-> NoInfo]]

\* lines 574-659: what the first command's output leads to.  done = FALSE
\* means the bridge-mismatch branch of line 592 is entered.
FirstAttempt(out) ==
    IF ~ out.err
    THEN IF out.body = "json"
         THEN [done |-> TRUE, ret |-> [err |-> "nil", info |-> out.info]]
         ELSE [done |-> TRUE, ret |-> [err |-> "failed to parse SMART info", info |-> NoInfo]]
    ELSE IF out.body = "json"
         THEN IF isUnknownUSBBridge(out.info)
              THEN [done |-> FALSE, ret |-> [err |-> "nil", info |-> out.info]]
              ELSE [done |-> TRUE, ret |-> FinalResult(out.info)]
         ELSE [done |-> TRUE, ret |-> [err |-> "failed to get SMART info", info |-> NoInfo]]

\* a retry that always takes the default type
RetryDeviceTypeDefaultOnly(cache, usbBridgeID) == DefaultDeviceType

\* lines 597-609: the device type of the retry
RetryDeviceType(cache, usbBridgeID) ==
    LET known == getCachedDeviceType(cache, usbBridgeID)
        deviceType == IF usbBridgeID # "" /\ known.ok THEN known.deviceType ELSE ""
    IN  IF deviceType = "" THEN DefaultDeviceType ELSE deviceType

(***************************************************************************)
(* loadDrivedbAddendum, lines 297-445: pure parts.  An entry of            *)
(* drivedb.h is taken as its quoted fields modelfamily, modelregexp and    *)
(* presets (fields 0, 1 and 4 of lines 337-339).                           *)
(***************************************************************************)
WordChars == "0123456789abcdefghijklmnopqrstuvwxyzABCDEFGHIJKLMNOPQRSTUVWXYZ_"

IsHexRun(s, i, n) == i + n - 1 <= Len(s) /\ \A k \in i..(i + n - 1) : IsHexAt(s, k)
IsWordChar(c) == \E k \in 1..Len(WordChars) : CharAt(WordChars, k) = c

\* first position >= i of s that holds the character c (0 if none)
IndexFrom(s, i, c) ==
    LET hits == { k \in i..Len(s) : CharAt(s, k) = c }
    IN  IF hits = {} THEN 0 ELSE CHOOSE k \in hits : \A j \in hits : k <= j

\* line 383: `(0x[0-9a-fA-F]{4}:0x[0-9a-fA-F]{4})` matches at position i
ExactIDAt(s, i) ==
    /\ HasAt(s, i, "0x") /\ IsHexRun(s, i + 2, 4)
    /\ HasAt(s, i + 6, ":0x") /\ IsHexRun(s, i + 9, 4)

\* line 384: FindAllString, leftmost matches that do not overlap
RECURSIVE FindAllExactIDs(_, _)
FindAllExactIDs(s, i) ==
    IF i > Len(s) THEN << >>
    ELSE IF ExactIDAt(s, i) THEN << SubSeq(s, i, i + 12) >> \o FindAllExactIDs(s, i + 13)
    ELSE FindAllExactIDs(s, i + 1)

\* line 391: `(0x[0-9a-fA-F]{4}):0x([0-9a-fA-F]{2})\(([^\)]+)\)` matches at
\* position i; close is the position of the closing parenthesis
AlternationAt(s, i) ==
    LET close == IndexFrom(s, i + 12, ")")
    IN  IF /\ HasAt(s, i, "0x") /\ IsHexRun(s, i + 2, 4)
           /\ HasAt(s, i + 6, ":0x") /\ IsHexRun(s, i + 9, 2)
           /\ HasAt(s, i + 11, "(")
           /\ close > i + 12
        THEN [ok |-> TRUE, vendor |-> SubSeq(s, i, i + 5), prefix |-> SubSeq(s, i + 9, i + 10),
              alternatives |-> SubSeq(s, i + 12, close - 1), close |-> close]
        ELSE [ok |-> FALSE, vendor |-> "", prefix |-> "", alternatives |-> "", close |-> 0]

\* strings.Split(s, "|")
RECURSIVE SplitAlternatives(_)
SplitAlternatives(s) ==
    LET bar == IndexFrom(s, 1, "|")
    IN  IF bar = 0 THEN << s >>
        ELSE << SubSeq(s, 1, bar - 1) >> \o SplitAlternatives(SubSeq(s, bar + 1, Len(s)))

\* line 418: `^(\w)\[([^\]]+)\]$`
IsCharClass(pattern) ==
    /\ Len(pattern) >= 4
    /\ IsWordChar(CharAt(pattern, 1))
    /\ CharAt(pattern, 2) = "["
    /\ IndexFrom(pattern, 3, "]") = Len(pattern)

\* lines 414-445
expandProductIDPattern(vendor, prefix, pattern) ==
    IF IsCharClass(pattern)
    THEN [ k \in 1..(Len(pattern) - 3) |->
             vendor \o ":0x" \o prefix \o CharAt(pattern, 1) \o CharAt(pattern, k + 2) ]
    ELSE IF Len(pattern) = 2 THEN << vendor \o ":0x" \o prefix \o pattern >>
    ELSE IF Len(pattern) = 4 THEN << vendor \o ":0x" \o pattern >>
    ELSE << >>

\* lines 401-405: the expansions of the parts, in order
RECURSIVE ExpandParts(_, _, _)
ExpandParts(vendor, prefix, parts) ==
    IF parts = << >> THEN << >>
    ELSE expandProductIDPattern(vendor, prefix, Head(parts))
         \o ExpandParts(vendor, prefix, Tail(parts))

\* lines 392-407: FindAllStringSubmatch of the alternation pattern
RECURSIVE ExpandAlternations(_, _)
ExpandAlternations(s, i) ==
    IF i > Len(s) THEN << >>
    ELSE LET m == AlternationAt(s, i)
         IN  IF m.ok
             THEN ExpandParts(m.vendor, m.prefix, SplitAlternatives(m.alternatives))
                  \o ExpandAlternations(s, m.close + 1)
             ELSE ExpandAlternations(s, i + 1)

\* lines 379-412
extractUSBIDs(modelregexp) ==
    FindAllExactIDs(modelregexp, 1) \o ExpandAlternations(modelregexp, 1)

\* lines 306 and 345-353: `-d\s+(\S+)` in presets, cut at the first comma
\* ("" if presets names no device type).  Presets separate words by blanks.
RECURSIVE BlankRunEnd(_, _)
BlankRunEnd(s, i) == IF i <= Len(s) /\ CharAt(s, i) = " " THEN BlankRunEnd(s, i + 1) ELSE i - 1
RECURSIVE WordEnd(_, _)
WordEnd(s, i) == IF i <= Len(s) /\ CharAt(s, i) # " " THEN WordEnd(s, i + 1) ELSE i - 1

DeviceTypeOf(presets) ==
    LET hits == { i \in 1..Len(presets) :
                    /\ HasAt(presets, i, "-d ")
                    /\ WordEnd(presets, BlankRunEnd(presets, i + 2) + 1)
                          > BlankRunEnd(presets, i + 2) }
    IN  IF hits = {} THEN ""
        ELSE LET i == CHOOSE k \in hits : \A j \in hits : k <= j
                 b == BlankRunEnd(presets, i + 2)
                 word == SubSeq(presets, b + 1, WordEnd(presets, b + 1))
                 comma == IndexFrom(word, 1, ",")
             IN  IF comma = 0 THEN word ELSE SubSeq(word, 1, comma - 1)

\* lines 354-357: cache[key] = deviceType for every identifier, in order
RECURSIVE StoreIDs(_, _, _)
StoreIDs(cache, ids, deviceType) ==
    IF ids = << >> THEN cache
    ELSE LET key == "usb:" \o ToLower(Head(ids))
         IN  StoreIDs([ k \in DOMAIN cache \cup { key } |->
                          IF k = key THEN deviceType ELSE cache[k] ],
                      Tail(ids), deviceType)

\* lines 336-359: one complete entry
LoadEntry(cache, entry) ==
    IF HasAt(entry.modelfamily, 1, "USB:") /\ DeviceTypeOf(entry.presets) # ""
    THEN StoreIDs(cache, extractUSBIDs(entry.modelregexp), DeviceTypeOf(entry.presets))
    ELSE cache

\* the entries a drivedb.h may hold
ModelRegexps ==
    { "0x152d:0x05(7[789]|80)",
      "0x152d:0x0562",
      "0x0BDA:0x9201",
      "0x04e8:0x(5f05|6032)",
      "0x059f:0x10(2[0-2]|31)" }
ModelFamilies == { "USB: JMicron; ", "Seagate Barracuda" }
Presets == { "-d sat", "-d usbjmicron,x", "" }
DrivedbEntries ==
    { [modelfamily |-> f, modelregexp |-> r, presets |-> p] :
        f \in ModelFamilies, r \in ModelRegexps, p \in Presets }

RECURSIVE EntryLists(_)
EntryLists(n) ==
    IF n = 0 THEN { << >> }
    ELSE LET shorter == EntryLists(n - 1)
         IN  shorter \cup { Append(l, e) : l \in { x \in shorter : Len(x) = n - 1 },
                                           e \in DrivedbEntries }
DrivedbFiles == EntryLists(MaxRecords) \ { << >> }

(***************************************************************************)
(* Message cache: pure parts.  The cache's code is not part of the         *)
(* sources; it is modelled from the specification, the snippets of         *)
(* GO_1_26_TECHNICAL_SUMMARY.md and the tests of the cache.                *)
(***************************************************************************)
Loggers == { "l1", "l2" }

MsgTexts == { "Another warning message", AdvisoryMsg }
Severities == { "information", "warning", "error", "" }

\* the TTL constants, in clock units: information longest, error shortest
msgCacheTTLInformation == 4
msgCacheTTLWarning == 3
msgCacheTTLError == 1
msgCacheTTLDefault == 2

\* a TTL choice that takes every other severity for an error
getTTLUnknownAsError(severity) ==
    CASE severity = "information" -> msgCacheTTLInformation
      [] severity = "warning" -> msgCacheTTLWarning
      [] OTHER -> msgCacheTTLError

\* a TTL choice that has no case for "error"
getTTLWithoutError(severity) ==
    CASE severity = "information" -> msgCacheTTLInformation
      [] severity = "warning" -> msgCacheTTLWarning
      [] OTHER -> msgCacheTTLDefault

getTTL(severity) ==
    CASE severity = "information" -> msgCacheTTLInformation
      [] severity = "warning" -> msgCacheTTLWarning
      [] severity = "error" -> msgCacheTTLError
      [] OTHER -> msgCacheTTLDefault

\* hashString: a content hash of the text, case-sensitive
HashAlphabet == " .:ABCDEFGHIJKLMNOPQRSTUVWXYZabcdefghijklmnopqrstuvwxyz"
CharCode(c) ==
    LET hits == { i \in 1..Len(HashAlphabet) : CharAt(HashAlphabet, i) = c }
    IN  IF hits = {} THEN 0 ELSE CHOOSE i \in hits : TRUE

RECURSIVE HashFrom(_, _, _)
HashFrom(s, i, h) ==
    IF i > Len(s) THEN h
    ELSE HashFrom(s, i + 1, (h * 31 + CharCode(CharAt(s, i))) % 65536)

\* a hash that does not look at the text
hashStringConstant(s) == 7

hashString(s) == HashFrom(s, 1, 7)

MsgHash == [ m \in MsgTexts |-> hashString(m) ]

\* an expiry test that never finds an entry unexpired
EntryUnexpiredNever(e, key, t) == FALSE

\* an entry that still counts as unexpired at its expiry time
EntryUnexpiredInclusive(e, key, t) == key \in DOMAIN e /\ t <= e[key].expiresAt

\* now.Before(cacheEntry.expiresAt) for the entry of key, if there is one
EntryUnexpired(e, key, t) == key \in DOMAIN e /\ t < e[key].expiresAt

\* a store that leaves an entry that is already there alone
StoreEntryKeepsOld(e, key, t, ttl) ==
    [ k \in DOMAIN e \cup { key } |-> IF k \in DOMAIN e THEN e[k] ELSE [expiresAt |-> t + ttl] ]

\* mc.entries.Store(key, messageCacheEntry{expiresAt: now.Add(ttl)})
StoreEntry(e, key, t, ttl) ==
    [ k \in DOMAIN e \cup { key } |-> IF k = key THEN [expiresAt |-> t + ttl] ELSE e[k] ]

(***************************************************************************)
(* Self-test orchestration: pure parts.                                    *)
(***************************************************************************)
ValidTypes == { "short", "long", "conveyance", "offline" }
TestTypes == ValidTypes \cup { "extended" }

\* a start that runs the command for any type
RunSelfTestUnvalidated(t, cmdErr) ==
    IF cmdErr THEN [err |-> "failed to run self-test", ran |-> TRUE]
    ELSE [err |-> "nil", ran |-> TRUE]

\* lines 738-757: RunSelfTest; ran = the `smartctl -t` command was invoked
RunSelfTest(t, cmdErr) ==
    IF t \notin ValidTypes THEN [err |-> "invalid test type", ran |-> FALSE]
    ELSE IF cmdErr THEN [err |-> "failed to run self-test", ran |-> TRUE]
    ELSE [err |-> "nil", ran |-> TRUE]

TickSeconds == 5

DefaultMinutes(testType) ==
    CASE testType = "short" -> 2
      [] testType = "long" -> 120
      [] testType = "conveyance" -> 5
      [] testType = "offline" -> 10
      [] OTHER -> 0

\* an expected duration that ignores what the device reports
ExpectedMinutesDefaultOnly(testType, durations) == DefaultMinutes(testType)

\* lines 808-818
ExpectedMinutes(testType, durations) ==
    IF testType \in DOMAIN durations /\ durations[testType] > 0
    THEN durations[testType]
    ELSE DefaultMinutes(testType)

\* a detection that overlooks "interrupted"
IsTerminalStatusNoInterrupted(ls) == Contains(ls, "completed") \/ Contains(ls, "aborted")

\* line 843
IsTerminalStatus(ls) ==
    Contains(ls, "completed") \/ Contains(ls, "aborted") \/ Contains(ls, "interrupted")

\* a message that reports every terminal status as completed
TerminalMessageAlwaysCompleted(ls) == "Self-test completed"

\* lines 846-856
TerminalMessage(ls) ==
    "Self-test " \o
      (IF Contains(ls, "completed") THEN "completed"
       ELSE IF Contains(ls, "aborted") THEN "aborted"
       ELSE "interrupted")

\* per status text: lines 842-843 and 846-856 applied to strings.ToLower(status.String)
StatusIsTerminal == [ st \in StatusTexts |-> IsTerminalStatus(ToLower(st)) ]
StatusTerminalMessage == [ st \in StatusTexts |-> TerminalMessage(ToLower(st)) ]

\* lines 864-875: attribute 231, capped at 100; -1 when absent
AttrProgress(ata) ==
    IF ata.attr231 = NoAttr THEN -1
    ELSE IF ata.attr231 > 100 THEN 100 ELSE ata.attr231

\* an estimate rounded to the nearest percent instead of down
ElapsedProgressRounded(e, minutes) ==
    LET progress == (e * 100 + minutes * 30) \div (minutes * 60)
    IN  IF progress > 95 THEN 95 ELSE progress

\* the elapsed-time estimate without its cap
ElapsedProgressUncapped(e, minutes) == (e * 100) \div (minutes * 60)

\* lines 878-881 and 893-896
ElapsedProgress(e, minutes) ==
    LET progress == (e * 100) \div (minutes * 60)
    IN  IF progress > 95 THEN 95 ELSE progress

\* line 903
TimedOut(e, minutes) == e > minutes * 120

NoCb == [progress |-> -1, msg |-> "", source |-> "none"]

\* lines 834-900: what one tick does with the result of GetSMARTInfo:
\* "continue" (failed query), "terminal" (callback 100, return nil) or
\* "progress" (in-progress callback, then the timeout check)
TickOutcome(r, e, minutes) ==
    IF r.err # "nil" THEN [kind |-> "continue", cb |-> NoCb]
    ELSE IF r.info.ata.ata /\ r.info.ata.selfTest
    THEN LET status == StatusFieldUnmarshal(r.info.ata).String
         IN  IF status # NoStatus /\ StatusIsTerminal[status]
             THEN [kind |-> "terminal",
                   cb |-> [progress |-> 100, msg |-> StatusTerminalMessage[status],
                           source |-> "terminal"]]
             ELSE [kind |-> "progress",
                   cb |-> [progress |-> IF AttrProgress(r.info.ata) = -1
                                        THEN ElapsedProgress(e, minutes)
                                        ELSE AttrProgress(r.info.ata),
                           msg |-> IF status # NoStatus
                                   THEN "Self-test in progress (" \o status \o ")"
                                   ELSE "Self-test in progress",
                           source |-> IF AttrProgress(r.info.ata) = -1
                                      THEN "elapsed" ELSE "attr"]]
    ELSE [kind |-> "progress",
          cb |-> [progress |-> ElapsedProgress(e, minutes),
                  msg |-> "Self-test in progress", source |-> "elapsed"]]

\* line 804: strings.ToUpper(string(testType[0])) + testType[1:]
ToUpperChar(c) ==
    IF \E k \in 1..Len(LowerChars) : CharAt(LowerChars, k) = c
    THEN CharAt(UpperChars, CHOOSE k \in 1..Len(LowerChars) : CharAt(LowerChars, k) = c)
    ELSE c

StartedMessage(testType) ==
    ToUpperChar(CharAt(testType, 1)) \o SubSeq(testType, 2, Len(testType))
        \o " self-test started"

\* the capabilities a device can print for `smartctl -c -j`
NoCaps == [ata |-> FALSE, caps |-> FALSE, selfTests |-> FALSE, conveyance |-> FALSE,
           offline |-> FALSE, polling |-> FALSE, short |-> 0, extended |-> 0,
           pconveyance |-> 0, nvmeCtrl |-> FALSE, nvmeOpt |-> FALSE]

\* polling minutes a device reports for the long and the conveyance test
ExtendedMinutes == { 0, 90 }
ConveyanceMinutes == { 0, 6 }

CapsVariants ==
    { [ata |-> TRUE, caps |-> TRUE, selfTests |-> st, conveyance |-> cv, offline |-> of,
       polling |-> TRUE, short |-> ps, extended |-> pe, pconveyance |-> pc0,
       nvmeCtrl |-> FALSE, nvmeOpt |-> FALSE] :
         st \in BOOLEAN, cv \in BOOLEAN, of \in BOOLEAN,
         ps \in 0..MaxPollingMinutes, pe \in ExtendedMinutes, pc0 \in ConveyanceMinutes }
    \cup { [NoCaps EXCEPT !.ata = TRUE, !.caps = TRUE, !.selfTests = TRUE] }
    \cup { [NoCaps EXCEPT !.ata = TRUE, !.polling = TRUE, !.short = MaxPollingMinutes] }
    \cup { [NoCaps EXCEPT !.nvmeCtrl = nc, !.nvmeOpt = no] : nc \in BOOLEAN, no \in BOOLEAN }

CapsOutputs ==
    { [err |-> TRUE, body |-> "empty", caps |-> NoCaps],
      [err |-> FALSE, body |-> "garbage", caps |-> NoCaps] }
    \cup { [err |-> FALSE, body |-> "json", caps |-> c] : c \in CapsVariants }

\* lines 928-964: the Available list
AvailableTests(c) ==
    (IF c.ata /\ c.caps /\ c.selfTests THEN << "short", "long" >> ELSE << >>)
    \o (IF c.ata /\ c.caps /\ c.conveyance THEN << "conveyance" >> ELSE << >>)
    \o (IF c.ata /\ c.caps /\ c.offline THEN << "offline" >> ELSE << >>)
    \o (IF c.nvmeCtrl THEN << "short" >> ELSE << >>)
    \o (IF c.nvmeOpt THEN << "short" >> ELSE << >>)

\* lines 942-953: the Durations map
TestDurations(c) ==
    LET keys == (IF c.ata /\ c.polling /\ c.short > 0 THEN { "short" } ELSE {})
                \cup (IF c.ata /\ c.polling /\ c.extended > 0 THEN { "long" } ELSE {})
                \cup (IF c.ata /\ c.polling /\ c.pconveyance > 0 THEN { "conveyance" } ELSE {})
    IN  [ k \in keys |-> CASE k = "short" -> c.short
                           [] k = "long" -> c.extended
                           [] OTHER -> c.pconveyance ]

NoSelfTestInfo == [available |-> << >>, durations |-> [ k \in {} |-> 0 ]]

\* lines 911-967
GetAvailableSelfTests(out) ==
    IF out.err THEN [err |-> "failed to get capabilities", info |-> NoSelfTestInfo]
    ELSE IF out.body # "json" THEN [err |-> "failed to parse capabilities", info |-> NoSelfTestInfo]
    ELSE [err |-> "nil",
          info |-> [available |-> AvailableTests(out.caps), durations |-> TestDurations(out.caps)]]

(***************************************************************************)
(* State.                                                                  *)
(***************************************************************************)
VARIABLES
    deviceTypeCache,  \* Client.deviceTypeCache
    pc,               \* per goroutine: where its GetSMARTInfo call stands
    path,             \* per goroutine: devicePath of the call
    args,             \* per goroutine: cached type put on the first command ("" = none)
    first,            \* per goroutine: smartInfo parsed from the first command
    bridgeId,         \* per goroutine: usbBridgeID
    devType,          \* per goroutine: deviceType of the retry
    ret,              \* per caller: what its last GetSMARTInfo call returned
    execs,            \* per goroutine: commander invocations of the current/last call
    retryClass,       \* per goroutine: what the retry command of that call printed
    sawResolved,      \* per goroutine: the call began after a successful retry for its path
    sawFailed,        \* per goroutine: the call follows its caller's failed retry for the same path
    firstOut,         \* per caller: exit error and kind of output of the call's first command
    resolved,         \* device paths for which a retry has succeeded
    stpc,             \* RunSelfTestWithProgress: position
    testType, hasCallback, selfTestInfo, expectedMinutes, elapsed,
    capsOut,          \* the capabilities the device printed, until the test is started
    issued,           \* smartctl commands the self-test call has invoked, by their flag
    cancelled,        \* ctx.Done() is closed
    tickPending,      \* ticker.C holds a tick
    stret,            \* the error RunSelfTestWithProgress returned
    lastCb,           \* the arguments of the latest callback invocation
    cbTick,           \* flips on every callback invocation
    lastTick,         \* what the latest tick of the poll loop did
    lastStatus,       \* the self-test status text the latest tick read, if any
    lastRemaining,    \* the remaining_percent printed with that status, if any
    entries,          \* messageCache.entries: key -> messageCacheEntry
    now,              \* the clock time.Now() reads
    slpc,             \* per goroutine: where its shouldLog call stands
    slMsg,            \* per goroutine: msg of the call
    slSeverity,       \* per goroutine: severity of the call
    slNow,            \* per goroutine: the value of now := time.Now()
    slRet,            \* per goroutine: what its last shouldLog call returned
    recorded,         \* per key: the time and the severity of the call that stored its entry
    mu,               \* Client.deviceTypeCacheMux: the goroutines holding it to read, and to write
    muOther,          \* the deviceTypeCacheMux of a second client
    drivedbH,         \* the USB entries of the embedded drivedb.h (empty before the build)
    loadPos,          \* loadDrivedbAddendum: number of entries processed
    loadCache         \* loadDrivedbAddendum: the map being filled

resolverVars == << deviceTypeCache, pc, path, args, first, bridgeId, devType, ret, execs,
                   retryClass, sawResolved, sawFailed, firstOut, resolved >>
stVars == << stpc, testType, hasCallback, selfTestInfo, capsOut, issued, expectedMinutes, elapsed,
             cancelled, tickPending, stret, lastCb, cbTick, lastTick, lastStatus, lastRemaining >>
cacheVars == << entries, now, slpc, slMsg, slSeverity, slNow, slRet, recorded >>
lockVars == << mu, muOther >>
loaderVars == << drivedbH, loadPos, loadCache >>
vars == << resolverVars, stVars, cacheVars, lockVars, loaderVars >>

NoRet == [err |-> "none", info |-> NoInfo]
NoOut == [err |-> FALSE, body |-> "none"]

InitResolver ==
    /\ deviceTypeCache = DrivedbAddendum
    /\ pc = [ g \in Threads |-> "idle" ]
    /\ path = [ g \in Threads |-> "" ]
    /\ args = [ g \in Threads |-> NoType ]
    /\ first = [ g \in Threads |-> NoInfo ]
    /\ bridgeId = [ g \in Threads |-> "" ]
    /\ devType = [ g \in Threads |-> NoType ]
    /\ ret = [ g \in Threads |-> NoRet ]
    /\ execs = [ g \in Threads |-> 0 ]
    /\ retryClass = [ g \in Threads |-> "none" ]
    /\ sawResolved = [ g \in Threads |-> FALSE ]
    /\ sawFailed = [ g \in Threads |-> FALSE ]
    /\ firstOut = [ g \in Threads |-> NoOut ]
    /\ resolved = {}

InitSelfTest ==
    /\ stpc = "idle"
    /\ testType = ""
    /\ hasCallback = FALSE
    /\ selfTestInfo = NoSelfTestInfo
    /\ capsOut = NoCaps
    /\ issued = {}
    /\ expectedMinutes = 0
    /\ elapsed = 0
    /\ cancelled = FALSE
    /\ tickPending = FALSE
    /\ stret = "none"
    /\ lastCb = NoCb
    /\ cbTick = FALSE
    /\ lastTick = "none"
    /\ lastStatus = NoStatus
    /\ lastRemaining = NoRemaining

InitCache ==
    /\ entries = << >>
    /\ now = 0
    /\ slpc = [ g \in Loggers |-> "idle" ]
    /\ slMsg = [ g \in Loggers |-> "" ]
    /\ slSeverity = [ g \in Loggers |-> "" ]
    /\ slNow = [ g \in Loggers |-> 0 ]
    /\ slRet = [ g \in Loggers |-> "none" ]
    /\ recorded = << >>

NoWriter == "none"

InitLocks ==
    /\ mu = [readers |-> {}, writer |-> NoWriter]
    /\ muOther = [readers |-> {}, writer |-> NoWriter]

InitLoader ==
    /\ drivedbH = << >>
    /\ loadPos = 0
    /\ loadCache = << >>

Init == InitResolver /\ InitSelfTest /\ InitCache /\ InitLocks /\ InitLoader

(***************************************************************************)
(* The command outputs each goroutine may receive.  A caller of            *)
(* GetSMARTInfo does not read the ATA data, so its outputs carry none; an  *)
(* output of the poll loop that carries a bridge message carries the one   *)
(* with an identifier the drivedb does not know and no ATA data, and one   *)
(* that carries ATA data has no messages.                                  *)
(***************************************************************************)
HasBridgeMsg(sc) ==
    \E i \in 1..Len(sc.messages) : MsgHasSignature[sc.messages[i]]

PollInfos(p) ==
    { i \in Infos(p, AtaVariants) :
        IF HasBridgeMsg(i.smartctl)
        THEN i.ata = NoAta /\ i.smartctl.messages = << AdvisoryMsg, BridgeUnknownMsg >>
        ELSE i.smartctl = NoMessages /\ i.name = p }

PollPaths == { "/dev/usb0" }

CallerOutputs == [ p \in ArgumentPaths |-> Outputs(p, { NoAta }) ]

PollOutputs ==
    [ p \in PollPaths |->
        { [err |-> e, body |-> b, info |-> NoInfo] : e \in BOOLEAN, b \in { "empty", "garbage" } }
        \cup { [err |-> e, body |-> "json", info |-> i] : e \in BOOLEAN, i \in PollInfos(p) } ]

CmdOutputs(g, p) == IF g = Poller THEN PollOutputs[p] ELSE CallerOutputs[p]

\* what a retry command printed, read off the output itself
ClassOfRetry(out) ==
    IF out.body = "json" /\ out.info.name # ""
    THEN IF out.err THEN "namederr" ELSE "named"
    ELSE IF out.err /\ out.body = "json" /\ ~ out.info.smartctl.nil /\ HasBridgeMsg(out.info.smartctl)
         THEN "sigfail"
         ELSE "otherfail"

(***************************************************************************)
(* RunSelfTestWithProgress, lines 834-905: the rest of a tick once         *)
(* GetSMARTInfo has returned r.                                            *)
(***************************************************************************)
TickProcess(r) ==
    \E o \in { TickOutcome(r, elapsed, expectedMinutes) } :
    LET called == hasCallback /\ o.kind # "continue"
    IN  /\ lastStatus' = IF r.err = "nil" /\ r.info.ata.ata /\ r.info.ata.selfTest
                       THEN r.info.ata.status ELSE NoStatus
        /\ lastRemaining' = IF r.err = "nil" /\ r.info.ata.ata /\ r.info.ata.selfTest
                          THEN r.info.ata.remaining ELSE NoRemaining
        /\ lastCb' = IF called THEN o.cb ELSE lastCb
        /\ cbTick' = IF called THEN ~ cbTick ELSE cbTick
        /\ IF o.kind = "terminal"
           THEN stpc' = "done" /\ stret' = "nil" /\ lastTick' = "terminal"
           ELSE IF o.kind = "progress" /\ TimedOut(elapsed, expectedMinutes)
           THEN stpc' = "done" /\ stret' = "timed out" /\ lastTick' = "timeout"
           ELSE stpc' = "select" /\ stret' = stret /\ lastTick' = o.kind

\* The end of a step of GetSMARTInfo by goroutine g: the call returned r
\* (done) or goes on.  For the poll loop the return continues the tick.
Finish(g, done, r) ==
    IF g = Poller
    THEN /\ UNCHANGED << cacheVars, lockVars, loaderVars >>
         /\ ret' = ret
         /\ IF done THEN TickProcess(r)
            ELSE UNCHANGED << stpc, stret, lastCb, cbTick, lastTick, lastStatus, lastRemaining >>
         /\ issued' = issued \cup { "-a" }
         /\ UNCHANGED << testType, hasCallback, selfTestInfo, capsOut, expectedMinutes, elapsed,
                         cancelled, tickPending >>
    ELSE /\ ret' = [ret EXCEPT ![g] = IF done THEN r ELSE @]
         /\ UNCHANGED << stVars, cacheVars, lockVars, loaderVars >>

\* the bookkeeping of a finished call is kept for callers only
Keep(g, v, zero) == IF g = Poller THEN zero ELSE v

(***************************************************************************)
(* Client.GetSMARTInfo, lines 565-660, in steps that touch the shared      *)
(* cache at most once each.                                                *)
(***************************************************************************)
\* lines 567-572: the arguments, from the cache
ReadArgs(g, p) ==
    LET c == getCachedDeviceType(deviceTypeCache, p)
    IN  /\ path' = [path EXCEPT ![g] = p]
        /\ args' = [args EXCEPT ![g] = IF c.ok THEN c.deviceType ELSE NoType]
        /\ execs' = [execs EXCEPT ![g] = 0]
        /\ retryClass' = [retryClass EXCEPT ![g] = "none"]
        /\ sawResolved' = [sawResolved EXCEPT ![g] = p \in resolved]
        /\ firstOut' = [firstOut EXCEPT ![g] = NoOut]
        /\ sawFailed' = [sawFailed EXCEPT ![g] = /\ retryClass[g] \in { "sigfail", "otherfail" }
                                                  /\ path[g] = p]
        /\ ret' = [ret EXCEPT ![g] = NoRet]
        /\ pc' = [pc EXCEPT ![g] = "exec1"]
        /\ UNCHANGED << deviceTypeCache, first, bridgeId, devType, resolved >>
        /\ UNCHANGED << cacheVars, lockVars, loaderVars >>

GSI_Call(g, p) ==
    /\ g \in Callers
    /\ pc[g] = "idle"
    /\ ReadArgs(g, p)
    /\ UNCHANGED stVars

\* lines 574-592 and 632-659: the first command
GSI_Exec1(g) ==
    /\ pc[g] = "exec1"
    /\ \E out \in CmdOutputs(g, path[g]) :
         \E o \in { FirstAttempt(out) } :
             /\ first' = [first EXCEPT ![g] = IF o.done THEN NoInfo ELSE out.info]
             /\ pc' = [pc EXCEPT ![g] = IF o.done THEN "idle" ELSE "hasCached"]
             /\ execs' = [execs EXCEPT ![g] = IF o.done THEN Keep(g, 1, 0) ELSE 1]
             /\ args' = [args EXCEPT ![g] = IF o.done THEN NoType ELSE @]
             /\ sawResolved' = [sawResolved EXCEPT ![g] = IF o.done THEN FALSE ELSE @]
             /\ sawFailed' = [sawFailed EXCEPT ![g] = IF o.done THEN FALSE ELSE @]
             /\ firstOut' = [firstOut EXCEPT ![g] = Keep(g, [err |-> out.err, body |-> out.body], NoOut)]
             /\ Finish(g, o.done, o.ret)
    /\ UNCHANGED << deviceTypeCache, path, bridgeId, devType, retryClass, resolved >>

\* lines 593-596: hasCached, and the identifier extraction
GSI_CheckCached(g) ==
    /\ pc[g] = "hasCached"
    /\ \E c \in { getCachedDeviceType(deviceTypeCache, path[g]) } :
           /\ pc' = [pc EXCEPT ![g] = IF c.ok THEN "idle" ELSE "lookupKB"]
           /\ bridgeId' = [bridgeId EXCEPT ![g] = IF c.ok THEN "" ELSE extractUSBBridgeID(first[g])]
           /\ first' = [first EXCEPT ![g] = IF c.ok THEN NoInfo ELSE @]
           /\ args' = [args EXCEPT ![g] = IF c.ok THEN NoType ELSE @]
           /\ execs' = [execs EXCEPT ![g] = IF c.ok THEN Keep(g, @, 0) ELSE @]
           /\ sawResolved' = [sawResolved EXCEPT ![g] = IF c.ok THEN FALSE ELSE @]
           /\ sawFailed' = [sawFailed EXCEPT ![g] = IF c.ok THEN FALSE ELSE @]
           /\ firstOut' = firstOut
           /\ Finish(g, c.ok, FinalResult(first[g]))
    /\ UNCHANGED << deviceTypeCache, path, devType, retryClass, resolved >>

\* lines 597-609: knowledge-base lookup, default "sat"
GSI_LookupKB(g) ==
    /\ pc[g] = "lookupKB"
    /\ devType' = [devType EXCEPT ![g] = RetryDeviceType(deviceTypeCache, bridgeId[g])]
    /\ pc' = [pc EXCEPT ![g] = "retry"]
    /\ Finish(g, FALSE, NoRet)
    /\ UNCHANGED << deviceTypeCache, path, args, first, bridgeId, execs, retryClass,
                    sawResolved, sawFailed, firstOut, resolved >>

\* lines 611-638: the retry, and the commit of a successful one
GSI_Retry(g) ==
    /\ pc[g] = "retry"
    /\ \E out \in CmdOutputs(g, path[g]) :
         \E ok \in { RetrySucceeded(out) } :
             /\ deviceTypeCache' = IF ok
                                   THEN setCachedDeviceType(deviceTypeCache, path[g], devType[g])
                                   ELSE deviceTypeCache
             /\ resolved' = IF ok THEN resolved \cup { path[g] } ELSE resolved
             /\ retryClass' = [retryClass EXCEPT ![g] = Keep(g, ClassOfRetry(out), "none")]
             /\ Finish(g, TRUE, IF ok THEN [err |-> "nil", info |-> out.info]
                                ELSE FinalResult(first[g]))
    /\ execs' = [execs EXCEPT ![g] = Keep(g, 2, 0)]
    /\ args' = [args EXCEPT ![g] = NoType]
    /\ sawResolved' = [sawResolved EXCEPT ![g] = FALSE]
    /\ sawFailed' = [sawFailed EXCEPT ![g] = FALSE]
    /\ firstOut' = firstOut
    /\ pc' = [pc EXCEPT ![g] = "idle"]
    /\ first' = [first EXCEPT ![g] = NoInfo]
    /\ bridgeId' = [bridgeId EXCEPT ![g] = ""]
    /\ devType' = [devType EXCEPT ![g] = NoType]
    /\ UNCHANGED path

NextResolver ==
    \/ \E g \in Callers, p \in DevicePaths : GSI_Call(g, p)
    \/ \E g \in Callers : GSI_Exec1(g)
    \/ \E g \in Callers : GSI_CheckCached(g)
    \/ \E g \in Callers : GSI_LookupKB(g)
    \/ \E g \in Callers : GSI_Retry(g)

SpecResolver == Init /\ [][NextResolver]_vars

(***************************************************************************)
(* Client.RunSelfTestWithProgress, lines 763-908.                          *)
(***************************************************************************)
StReturn(e) == stpc' = "done" /\ stret' = e

\* lines 738-757: a direct call of RunSelfTest
RST_Call(p, t) ==
    /\ stpc = "idle"
    /\ testType' = t
    /\ hasCallback' = FALSE
    /\ path' = [path EXCEPT ![Poller] = p]
    /\ \E cmdErr \in BOOLEAN :
         \E r \in { RunSelfTest(t, cmdErr) } :
             /\ StReturn(r.err)
             /\ issued' = IF r.ran THEN { "-t" } ELSE {}
    /\ UNCHANGED << deviceTypeCache, pc, args, first, bridgeId, devType, ret, execs,
                    retryClass, sawResolved, sawFailed, firstOut, resolved, cacheVars, lockVars, loaderVars >>
    /\ UNCHANGED << selfTestInfo, capsOut, expectedMinutes, elapsed, cancelled, tickPending,
                    lastCb, cbTick, lastTick, lastStatus, lastRemaining >>

\* lines 1026-1032: a call of AbortSelfTest
AST_Call(p) ==
    /\ stpc = "idle"
    /\ testType' = ""
    /\ hasCallback' = FALSE
    /\ path' = [path EXCEPT ![Poller] = p]
    /\ \E cmdErr \in BOOLEAN :
           StReturn(IF cmdErr THEN "failed to abort self-test" ELSE "nil")
    /\ issued' = { "-X" }
    /\ UNCHANGED << deviceTypeCache, pc, args, first, bridgeId, devType, ret, execs,
                    retryClass, sawResolved, sawFailed, firstOut, resolved, cacheVars, lockVars, loaderVars >>
    /\ UNCHANGED << selfTestInfo, capsOut, expectedMinutes, elapsed, cancelled, tickPending,
                    lastCb, cbTick, lastTick, lastStatus, lastRemaining >>

\* lines 765-774: validation of the test type
ST_Call(p, t, cb) ==
    /\ stpc = "idle"
    /\ testType' = t
    /\ hasCallback' = cb
    /\ path' = [path EXCEPT ![Poller] = p]
    /\ IF t \in ValidTypes THEN stpc' = "caps" /\ stret' = stret
       ELSE StReturn("invalid test type")
    /\ UNCHANGED << deviceTypeCache, pc, args, first, bridgeId, devType, ret, execs,
                    retryClass, sawResolved, sawFailed, firstOut, resolved, cacheVars, lockVars, loaderVars >>
    /\ UNCHANGED << selfTestInfo, capsOut, issued, expectedMinutes, elapsed, cancelled, tickPending,
                    lastCb, cbTick, lastTick, lastStatus, lastRemaining >>

\* a capability step that starts whatever the device lists
ST_CapsUnchecked ==
    /\ stpc = "caps"
    /\ \E out \in CapsOutputs :
         \E r \in { GetAvailableSelfTests(out) } :
             /\ selfTestInfo' = r.info
             /\ capsOut' = IF r.err # "nil" THEN NoCaps ELSE out.caps
             /\ IF r.err # "nil"
                THEN StReturn("failed to get self-test info")
                ELSE stpc' = "start" /\ stret' = stret
    /\ issued' = issued \cup { "-c" }
    /\ UNCHANGED << resolverVars, cacheVars, lockVars, loaderVars, testType, hasCallback, expectedMinutes, elapsed, cancelled,
                    tickPending, lastCb, cbTick, lastTick, lastStatus, lastRemaining >>

\* lines 777-796: the capability query
ST_Caps ==
    /\ stpc = "caps"
    /\ \E out \in CapsOutputs :
         \E r \in { GetAvailableSelfTests(out) } :
         LET avail == r.info.available
         IN  /\ selfTestInfo' = r.info
             /\ capsOut' = IF r.err = "nil" /\ \E i \in 1..Len(avail) : avail[i] = testType
                           THEN out.caps ELSE NoCaps
             /\ IF r.err # "nil"
                THEN StReturn("failed to get self-test info")
                ELSE IF Len(avail) = 0
                THEN StReturn("self-tests are not supported by this device")
                ELSE IF ~ \E i \in 1..Len(avail) : avail[i] = testType
                THEN StReturn("test type is not available for this device")
                ELSE stpc' = "start" /\ stret' = stret
    /\ issued' = issued \cup { "-c" }
    /\ UNCHANGED << resolverVars, cacheVars, lockVars, loaderVars, testType, hasCallback, expectedMinutes, elapsed, cancelled,
                    tickPending, lastCb, cbTick, lastTick, lastStatus, lastRemaining >>

\* a start that looks at the context first and returns its error
ST_StartChecksContext ==
    /\ stpc = "start"
    /\ ~ cancelled
    /\ \E cmdErr \in BOOLEAN :
         \E r \in { RunSelfTest(testType, cmdErr) } :
         IF r.err # "nil"
         THEN /\ StReturn("failed to start self-test")
              /\ issued' = IF r.ran THEN issued \cup { "-t" } ELSE issued
              /\ UNCHANGED << lastCb, cbTick, expectedMinutes >>
         ELSE /\ stpc' = "select" /\ stret' = stret
              /\ lastCb' = IF hasCallback
                           THEN [progress |-> 0, msg |-> StartedMessage(testType),
                                 source |-> "started"]
                           ELSE lastCb
              /\ cbTick' = IF hasCallback THEN ~ cbTick ELSE cbTick
              /\ expectedMinutes' = ExpectedMinutes(testType, selfTestInfo.durations)
              /\ issued' = IF r.ran THEN issued \cup { "-t" } ELSE issued
    /\ elapsed' = 0
    /\ selfTestInfo' = NoSelfTestInfo
    /\ capsOut' = NoCaps
    /\ UNCHANGED << resolverVars, cacheVars, lockVars, loaderVars, testType, hasCallback, cancelled, tickPending, lastTick, lastStatus, lastRemaining >>

ST_StartOrCancelled ==
    \/ ST_StartChecksContext
    \/ /\ stpc = "start"
       /\ cancelled
       /\ StReturn("context canceled")
       /\ elapsed' = 0
       /\ selfTestInfo' = NoSelfTestInfo
       /\ capsOut' = NoCaps
       /\ UNCHANGED << resolverVars, cacheVars, lockVars, loaderVars, testType, hasCallback, issued,
                       expectedMinutes, cancelled, tickPending, lastCb, cbTick, lastTick,
                       lastStatus, lastRemaining >>

\* lines 799-824: the start command, the first callback, the expected
\* duration and the ticker; selfTestInfo is not read after line 816
ST_Start ==
    /\ stpc = "start"
    /\ \E cmdErr \in BOOLEAN :
         \E r \in { RunSelfTest(testType, cmdErr) } :
         IF r.err # "nil"
         THEN /\ StReturn("failed to start self-test")
              /\ issued' = IF r.ran THEN issued \cup { "-t" } ELSE issued
              /\ UNCHANGED << lastCb, cbTick, expectedMinutes >>
         ELSE /\ stpc' = "select" /\ stret' = stret
              /\ lastCb' = IF hasCallback
                           THEN [progress |-> 0, msg |-> StartedMessage(testType),
                                 source |-> "started"]
                           ELSE lastCb
              /\ cbTick' = IF hasCallback THEN ~ cbTick ELSE cbTick
              /\ expectedMinutes' = ExpectedMinutes(testType, selfTestInfo.durations)
              /\ issued' = IF r.ran THEN issued \cup { "-t" } ELSE issued
    /\ elapsed' = 0
    /\ selfTestInfo' = NoSelfTestInfo
    /\ capsOut' = NoCaps
    /\ UNCHANGED << resolverVars, cacheVars, lockVars, loaderVars, testType, hasCallback, cancelled, tickPending, lastTick, lastStatus, lastRemaining >>

\* the caller cancels ctx
Cancel ==
    /\ ~ cancelled
    /\ stpc # "done"
    /\ cancelled' = TRUE
    /\ UNCHANGED << resolverVars, cacheVars, lockVars, loaderVars, stpc, testType, hasCallback, selfTestInfo, capsOut, issued, expectedMinutes,
                    elapsed, tickPending, stret, lastCb, cbTick, lastTick, lastStatus, lastRemaining >>

\* the poll loop is explored while this holds
WithinBounds ==
    /\ expectedMinutes <= MaxExpectedMinutes
    /\ elapsed < expectedMinutes * 120 + MaxOverTicks * TickSeconds

\* the ticker puts a tick into ticker.C (capacity 1).  A select that is
\* blocked when ctx is cancelled has already been woken by ctx.Done().
TimerFire ==
    /\ stpc \in { "select", "query" }
    /\ ~ tickPending
    /\ ~ (stpc = "select" /\ cancelled)
    /\ WithinBounds
    /\ tickPending' = TRUE
    /\ UNCHANGED << resolverVars, cacheVars, lockVars, loaderVars, stpc, testType, hasCallback, selfTestInfo, capsOut, issued, expectedMinutes,
                    elapsed, cancelled, stret, lastCb, cbTick, lastTick, lastStatus, lastRemaining >>

\* a select that takes ctx.Done() and returns no error
ST_SelectDoneNil ==
    /\ stpc = "select"
    /\ cancelled
    /\ StReturn("nil")
    /\ UNCHANGED << resolverVars, cacheVars, lockVars, loaderVars, testType, hasCallback, selfTestInfo, capsOut, issued,
                    expectedMinutes, elapsed, cancelled, tickPending, lastCb, cbTick,
                    lastTick, lastStatus, lastRemaining >>

\* a select that takes ctx.Done() and aborts the test on the device
ST_SelectDoneAbort ==
    /\ stpc = "select"
    /\ cancelled
    /\ StReturn("context canceled")
    /\ issued' = issued \cup { "-X" }
    /\ UNCHANGED << resolverVars, cacheVars, lockVars, loaderVars, testType, hasCallback, selfTestInfo, capsOut,
                    expectedMinutes, elapsed, cancelled, tickPending, lastCb, cbTick,
                    lastTick, lastStatus, lastRemaining >>

\* a select that notes the cancellation and goes on polling
ST_SelectDoneGoesOn ==
    /\ stpc = "select"
    /\ cancelled
    /\ stret # "context canceled"
    /\ stret' = "context canceled"
    /\ UNCHANGED << resolverVars, cacheVars, lockVars, loaderVars, stpc, testType, hasCallback, selfTestInfo, capsOut, issued,
                    expectedMinutes, elapsed, cancelled, tickPending, lastCb, cbTick,
                    lastTick, lastStatus, lastRemaining >>

\* lines 827-828: select takes ctx.Done()
ST_SelectDone ==
    /\ stpc = "select"
    /\ cancelled
    /\ StReturn("context canceled")
    /\ UNCHANGED << resolverVars, cacheVars, lockVars, loaderVars, testType, hasCallback, selfTestInfo, capsOut, issued, expectedMinutes,
                    elapsed, cancelled, tickPending, lastCb, cbTick, lastTick, lastStatus, lastRemaining >>

\* lines 829-833: select takes the tick; GetSMARTInfo begins
ST_Tick ==
    /\ stpc = "select"
    /\ tickPending
    /\ tickPending' = FALSE
    /\ elapsed' = elapsed + TickSeconds
    /\ stpc' = "query"
    /\ ReadArgs(Poller, path[Poller])
    /\ UNCHANGED << testType, hasCallback, selfTestInfo, capsOut, issued, expectedMinutes, cancelled, stret,
                    lastCb, cbTick, lastTick, lastStatus, lastRemaining >>

NextSelfTest ==
    \/ \E p \in PollPaths, t \in TestTypes, cb \in BOOLEAN : ST_Call(p, t, cb)
    \/ \E p \in PollPaths, t \in TestTypes : RST_Call(p, t)
    \/ \E p \in PollPaths : AST_Call(p)
    \/ ST_Caps
    \/ ST_Start
    \/ Cancel
    \/ TimerFire
    \/ ST_SelectDone
    \/ ST_Tick
    \/ GSI_Exec1(Poller)
    \/ GSI_CheckCached(Poller)
    \/ GSI_LookupKB(Poller)
    \/ GSI_Retry(Poller)

SpecSelfTest == Init /\ [][NextSelfTest]_vars

(***************************************************************************)
(* messageCache.shouldLog, in steps that touch the shared entries at most  *)
(* once each.                                                              *)
(***************************************************************************)
cacheFrame == << resolverVars, stVars, lockVars, loaderVars >>

\* shouldLog is called; now := time.Now()
SL_Call(g, msg, severity) ==
    /\ slpc[g] = "idle"
    /\ slpc' = [slpc EXCEPT ![g] = "load"]
    /\ slMsg' = [slMsg EXCEPT ![g] = msg]
    /\ slSeverity' = [slSeverity EXCEPT ![g] = severity]
    /\ slNow' = [slNow EXCEPT ![g] = now]
    /\ slRet' = [slRet EXCEPT ![g] = "none"]
    /\ UNCHANGED << entries, recorded, now, cacheFrame >>

\* mc.entries.Load(key); an unexpired entry returns false
SL_Load(g) ==
    /\ slpc[g] = "load"
    /\ IF EntryUnexpired(entries, MsgHash[slMsg[g]], slNow[g])
       THEN /\ slpc' = [slpc EXCEPT ![g] = "idle"]
            /\ slRet' = [slRet EXCEPT ![g] = "false"]
            /\ slMsg' = [slMsg EXCEPT ![g] = ""]
            /\ slSeverity' = [slSeverity EXCEPT ![g] = ""]
            /\ slNow' = [slNow EXCEPT ![g] = 0]
       ELSE /\ slpc' = [slpc EXCEPT ![g] = "store"]
            /\ UNCHANGED << slRet, slMsg, slSeverity, slNow >>
    /\ UNCHANGED << entries, recorded, now, cacheFrame >>

\* mc.entries.Store(key, ...); return true
SL_Store(g) ==
    /\ slpc[g] = "store"
    /\ entries' = StoreEntry(entries, MsgHash[slMsg[g]], slNow[g], getTTL(slSeverity[g]))
    /\ slpc' = [slpc EXCEPT ![g] = "idle"]
    /\ slRet' = [slRet EXCEPT ![g] = "true"]
    /\ slMsg' = [slMsg EXCEPT ![g] = ""]
    /\ slSeverity' = [slSeverity EXCEPT ![g] = ""]
    /\ slNow' = [slNow EXCEPT ![g] = 0]
    /\ recorded' = [ k \in DOMAIN recorded \cup { MsgHash[slMsg[g]] } |->
                       IF k = MsgHash[slMsg[g]]
                       THEN [at |-> slNow[g], severity |-> slSeverity[g]]
                       ELSE recorded[k] ]
    /\ UNCHANGED << now, cacheFrame >>

\* time passes
ClockTick ==
    /\ now < MaxNow
    /\ now' = now + 1
    /\ UNCHANGED << entries, recorded, slpc, slMsg, slSeverity, slNow, slRet, cacheFrame >>

NextCache ==
    \/ \E g \in Loggers, msg \in MsgTexts, severity \in Severities : SL_Call(g, msg, severity)
    \/ \E g \in Loggers : SL_Load(g)
    \/ \E g \in Loggers : SL_Store(g)
    \/ ClockTick

SpecCache == Init /\ [][NextCache]_vars

(***************************************************************************)
(* Client.GetSMARTInfo at the grain of the cache lock: a step acquires     *)
(* deviceTypeCacheMux, the next one accesses the map and releases it       *)
(* (the deferred RUnlock/Unlock).  The poll loop and the bookkeeping of    *)
(* the coarser steps above are left out.                                   *)
(***************************************************************************)
\* sync.RWMutex: RLock blocks while a writer holds the lock, Lock while
\* anyone holds it
RLockFree(m) == m.writer = NoWriter
LockFree(m) == m.writer = NoWriter /\ m.readers = {}

RLockSites == { "rlock567", "rlock593", "rlock599" }
ReadSections == { "read567", "read593", "read599" }
WriteSections == { "write618" }
ReadOf == [ s \in RLockSites |->
              CASE s = "rlock567" -> "read567"
                [] s = "rlock593" -> "read593"
                [] s = "rlock599" -> "read599" ]

lockFrame == << ret, execs, retryClass, sawResolved, sawFailed, firstOut, resolved, stVars,
               cacheVars, loaderVars, muOther >>

\* the call returns: its locals are gone
LK_Return(g) ==
    /\ pc' = [pc EXCEPT ![g] = "idle"]
    /\ args' = [args EXCEPT ![g] = NoType]
    /\ first' = [first EXCEPT ![g] = NoInfo]
    /\ bridgeId' = [bridgeId EXCEPT ![g] = ""]
    /\ devType' = [devType EXCEPT ![g] = NoType]

\* line 565: GetSMARTInfo is called
LK_Call(g, p) ==
    /\ pc[g] = "idle"
    /\ pc' = [pc EXCEPT ![g] = "rlock567"]
    /\ path' = [path EXCEPT ![g] = p]
    /\ UNCHANGED << deviceTypeCache, args, first, bridgeId, devType, mu, lockFrame >>

\* line 550: c.deviceTypeCacheMux.RLock()
LK_RLock(g) ==
    /\ pc[g] \in RLockSites
    /\ RLockFree(mu)
    /\ mu' = [mu EXCEPT !.readers = @ \cup { g }]
    /\ pc' = [pc EXCEPT ![g] = ReadOf[pc[g]]]
    /\ UNCHANGED << deviceTypeCache, path, args, first, bridgeId, devType, lockFrame >>

\* a getCachedDeviceType that returns without RUnlock
LK_ReadArgsKeepsLock(g) ==
    /\ pc[g] = "read567"
    /\ \E c \in { getCachedDeviceType(deviceTypeCache, path[g]) } :
           args' = [args EXCEPT ![g] = IF c.ok THEN c.deviceType ELSE NoType]
    /\ pc' = [pc EXCEPT ![g] = "exec1"]
    /\ UNCHANGED << deviceTypeCache, path, first, bridgeId, devType, mu, lockFrame >>

\* lines 567-572 with 551-553: the arguments, from the cache
LK_ReadArgs(g) ==
    /\ pc[g] = "read567"
    /\ \E c \in { getCachedDeviceType(deviceTypeCache, path[g]) } :
           args' = [args EXCEPT ![g] = IF c.ok THEN c.deviceType ELSE NoType]
    /\ mu' = [mu EXCEPT !.readers = @ \ { g }]
    /\ pc' = [pc EXCEPT ![g] = "exec1"]
    /\ UNCHANGED << deviceTypeCache, path, first, bridgeId, devType, lockFrame >>

\* lines 574-592 and 632-659: the first command
LK_Exec1(g) ==
    /\ pc[g] = "exec1"
    /\ \E out \in CallerOutputs[path[g]] :
         \E o \in { FirstAttempt(out) } :
             IF o.done
             THEN LK_Return(g)
             ELSE /\ first' = [first EXCEPT ![g] = out.info]
                  /\ pc' = [pc EXCEPT ![g] = "rlock593"]
                  /\ UNCHANGED << args, bridgeId, devType >>
    /\ UNCHANGED << deviceTypeCache, path, mu, lockFrame >>

\* lines 593-609 with 551-553: hasCached, the identifier extraction, and
\* the default type when there is no identifier to look up
LK_HasCached(g) ==
    /\ pc[g] = "read593"
    /\ \E c \in { getCachedDeviceType(deviceTypeCache, path[g]) } :
         \E id \in { extractUSBBridgeID(first[g]) } :
             IF c.ok
             THEN LK_Return(g)
             ELSE /\ bridgeId' = [bridgeId EXCEPT ![g] = id]
                  /\ devType' = [devType EXCEPT ![g] = IF id = "" THEN DefaultDeviceType ELSE @]
                  /\ pc' = [pc EXCEPT ![g] = IF id = "" THEN "retry" ELSE "rlock599"]
                  /\ UNCHANGED << args, first >>
    /\ mu' = [mu EXCEPT !.readers = @ \ { g }]
    /\ UNCHANGED << deviceTypeCache, path, lockFrame >>

\* lines 599-609 with 551-553: knowledge-base lookup, default "sat"
LK_ReadKB(g) ==
    /\ pc[g] = "read599"
    /\ devType' = [devType EXCEPT ![g] = RetryDeviceType(deviceTypeCache, bridgeId[g])]
    /\ mu' = [mu EXCEPT !.readers = @ \ { g }]
    /\ pc' = [pc EXCEPT ![g] = "retry"]
    /\ UNCHANGED << deviceTypeCache, path, args, first, bridgeId, lockFrame >>

\* lines 611-617 and 627-638: the retry command
LK_Retry(g) ==
    /\ pc[g] = "retry"
    /\ \E out \in CallerOutputs[path[g]] :
           IF RetrySucceeded(out)
           THEN /\ pc' = [pc EXCEPT ![g] = "lock618"]
                /\ UNCHANGED << args, first, bridgeId, devType >>
           ELSE LK_Return(g)
    /\ UNCHANGED << deviceTypeCache, path, mu, lockFrame >>

\* a setCachedDeviceType that takes the lock to read
LK_LockShared(g) ==
    /\ pc[g] = "lock618"
    /\ RLockFree(mu)
    /\ mu' = [mu EXCEPT !.readers = @ \cup { g }]
    /\ pc' = [pc EXCEPT ![g] = "write618"]
    /\ UNCHANGED << deviceTypeCache, path, args, first, bridgeId, devType, lockFrame >>

\* line 558: c.deviceTypeCacheMux.Lock()
LK_Lock(g) ==
    /\ pc[g] = "lock618"
    /\ LockFree(mu)
    /\ mu' = [mu EXCEPT !.writer = g]
    /\ pc' = [pc EXCEPT ![g] = "write618"]
    /\ UNCHANGED << deviceTypeCache, path, args, first, bridgeId, devType, lockFrame >>

\* lines 559-561 and 619-621: the write, the deferred Unlock, the return
LK_Write(g) ==
    /\ pc[g] = "write618"
    /\ deviceTypeCache' = setCachedDeviceType(deviceTypeCache, path[g], devType[g])
    /\ mu' = [mu EXCEPT !.writer = NoWriter, !.readers = @ \ { g }]
    /\ LK_Return(g)
    /\ UNCHANGED << path, lockFrame >>

NextLocks ==
    \/ \E g \in Callers, p \in DevicePaths : LK_Call(g, p)
    \/ \E g \in Callers : LK_RLock(g)
    \/ \E g \in Callers : LK_ReadArgs(g)
    \/ \E g \in Callers : LK_Exec1(g)
    \/ \E g \in Callers : LK_HasCached(g)
    \/ \E g \in Callers : LK_ReadKB(g)
    \/ \E g \in Callers : LK_Retry(g)
    \/ \E g \in Callers : LK_Lock(g)
    \/ \E g \in Callers : LK_Write(g)

SpecLocks == Init /\ [][NextLocks]_vars

(***************************************************************************)
(* GetSMARTInfo, lines 565-660, called by one goroutine with a device path *)
(* and with arguments spelled like keys of the drivedb map.                *)
(***************************************************************************)

NextKeys ==
    \/ \E p \in { "/dev/usb0" } \cup KeyShapedPaths : GSI_Call("g1", p)
    \/ GSI_Exec1("g1")
    \/ GSI_CheckCached("g1")
    \/ GSI_LookupKB("g1")
    \/ GSI_Retry("g1")

SpecKeys == Init /\ [][NextKeys]_vars

(***************************************************************************)
(* Two clients built with the package-level drivedbCache as their          *)
(* deviceTypeCache: one map, and one deviceTypeCacheMux per client.        *)
(* Goroutine g1 calls GetSMARTInfo on the first client (mutex mu), g2 on   *)
(* the second (mutex muOther); the steps are those of the section above.   *)
(***************************************************************************)

sharedFrame == << ret, execs, retryClass, sawResolved, sawFailed, firstOut, resolved, stVars,
                 cacheVars, loaderVars, mu >>

\* line 550 on the second client: c.deviceTypeCacheMux.RLock()
OC_RLock(g) ==
    /\ pc[g] \in RLockSites
    /\ RLockFree(muOther)
    /\ muOther' = [muOther EXCEPT !.readers = @ \cup { g }]
    /\ pc' = [pc EXCEPT ![g] = ReadOf[pc[g]]]
    /\ UNCHANGED << deviceTypeCache, path, args, first, bridgeId, devType, sharedFrame >>

\* lines 567-572 with 551-553 on the second client
OC_ReadArgs(g) ==
    /\ pc[g] = "read567"
    /\ \E c \in { getCachedDeviceType(deviceTypeCache, path[g]) } :
           args' = [args EXCEPT ![g] = IF c.ok THEN c.deviceType ELSE NoType]
    /\ muOther' = [muOther EXCEPT !.readers = @ \ { g }]
    /\ pc' = [pc EXCEPT ![g] = "exec1"]
    /\ UNCHANGED << deviceTypeCache, path, first, bridgeId, devType, sharedFrame >>

\* lines 593-609 with 551-553 on the second client
OC_HasCached(g) ==
    /\ pc[g] = "read593"
    /\ \E c \in { getCachedDeviceType(deviceTypeCache, path[g]) } :
         \E id \in { extractUSBBridgeID(first[g]) } :
             IF c.ok
             THEN LK_Return(g)
             ELSE /\ bridgeId' = [bridgeId EXCEPT ![g] = id]
                  /\ devType' = [devType EXCEPT ![g] = IF id = "" THEN DefaultDeviceType ELSE @]
                  /\ pc' = [pc EXCEPT ![g] = IF id = "" THEN "retry" ELSE "rlock599"]
                  /\ UNCHANGED << args, first >>
    /\ muOther' = [muOther EXCEPT !.readers = @ \ { g }]
    /\ UNCHANGED << deviceTypeCache, path, sharedFrame >>

\* lines 599-609 with 551-553 on the second client
OC_ReadKB(g) ==
    /\ pc[g] = "read599"
    /\ devType' = [devType EXCEPT ![g] = RetryDeviceType(deviceTypeCache, bridgeId[g])]
    /\ muOther' = [muOther EXCEPT !.readers = @ \ { g }]
    /\ pc' = [pc EXCEPT ![g] = "retry"]
    /\ UNCHANGED << deviceTypeCache, path, args, first, bridgeId, sharedFrame >>

\* line 558 on the second client: c.deviceTypeCacheMux.Lock()
OC_Lock(g) ==
    /\ pc[g] = "lock618"
    /\ LockFree(muOther)
    /\ muOther' = [muOther EXCEPT !.writer = g]
    /\ pc' = [pc EXCEPT ![g] = "write618"]
    /\ UNCHANGED << deviceTypeCache, path, args, first, bridgeId, devType, sharedFrame >>

\* lines 559-561 and 619-621 on the second client
OC_Write(g) ==
    /\ pc[g] = "write618"
    /\ deviceTypeCache' = setCachedDeviceType(deviceTypeCache, path[g], devType[g])
    /\ muOther' = [muOther EXCEPT !.writer = NoWriter, !.readers = @ \ { g }]
    /\ LK_Return(g)
    /\ UNCHANGED << path, sharedFrame >>

NextShared ==
    \/ \E g \in Callers, p \in DevicePaths : LK_Call(g, p)
    \/ \E g \in Callers : LK_Exec1(g)
    \/ \E g \in Callers : LK_Retry(g)
    \/ LK_RLock("g1")
    \/ LK_ReadArgs("g1")
    \/ LK_HasCached("g1")
    \/ LK_ReadKB("g1")
    \/ LK_Lock("g1")
    \/ LK_Write("g1")
    \/ OC_RLock("g2")
    \/ OC_ReadArgs("g2")
    \/ OC_HasCached("g2")
    \/ OC_ReadKB("g2")
    \/ OC_Lock("g2")
    \/ OC_Write("g2")

SpecShared == Init /\ [][NextShared]_vars

(***************************************************************************)
(* loadDrivedbAddendum, lines 297-372, entry by entry.                     *)
(***************************************************************************)
loaderFrame == << resolverVars, stVars, cacheVars, lockVars >>

\* line 22: the build embeds a drivedb.h
LD_Embed(f) ==
    /\ drivedbH = << >>
    /\ drivedbH' = f
    /\ UNCHANGED << loadPos, loadCache, loaderFrame >>

\* lines 312-365: the next entry
LD_Entry ==
    /\ loadPos < Len(drivedbH)
    /\ loadCache' = LoadEntry(loadCache, drivedbH[loadPos + 1])
    /\ loadPos' = loadPos + 1
    /\ UNCHANGED << drivedbH, loaderFrame >>

NextLoader ==
    \/ \E f \in DrivedbFiles : LD_Embed(f)
    \/ LD_Entry

SpecLoader == Init /\ [][NextLoader]_vars

(***************************************************************************)
(* Properties of the device-type resolver (SpecResolver).                  *)
(***************************************************************************)
FailedClasses == { "sigfail", "otherfail" }

\* C1: a GetSMARTInfo call for a path that began after a retry for that path
\* succeeded puts the cached device type on its command, runs that one
\* command only, and never reaches the identifier extraction, the
\* knowledge-base/default fallback or a retry, also when the command fails
\* with the bridge signature again.
C1_CachedTypeReused ==
    \A g \in Callers :
        sawResolved[g] =>
            /\ args[g] # NoType
            /\ path[g] \in DOMAIN deviceTypeCache
            /\ pc[g] \in { "exec1", "hasCached" }
            /\ execs[g] <= 1
            /\ bridgeId[g] = "" /\ devType[g] = NoType

\* C1 witness: such a call has failed with the bridge signature again and is
\* at the hasCached check
C1_Witness ==
    \E g \in Callers :
        /\ sawResolved[g]
        /\ pc[g] = "hasCached"
        /\ isUnknownUSBBridge(first[g])

C3_FailedRetryWritesNothing ==
    /\ [](\A g \in Callers :
            (sawFailed[g] /\ path[g] \notin resolved) => args[g] = NoType)
    /\ [][\A g \in Callers :
            (pc[g] = "retry" /\ pc'[g] = "idle" /\ retryClass'[g] \in FailedClasses) =>
                deviceTypeCache' = deviceTypeCache]_vars

\* C3 witness: the call after a failed retry for the same path is at its
\* own retry, with nothing cached for the path
C3_Witness ==
    \E g \in Callers :
        /\ sawFailed[g]
        /\ pc[g] = "retry"
        /\ args[g] = NoType
        /\ path[g] \notin DOMAIN deviceTypeCache

(***************************************************************************)
(* Properties of RunSelfTestWithProgress (SpecSelfTest).                   *)
(***************************************************************************)
TickEnds == stpc = "query" /\ stpc' # "query"

\* C4: the progress values passed to the callback never decrease from one
\* invocation to the next, and a poll loop that ended on a terminal status
\* passed 100 last.
C4_ProgressMonotonic ==
    /\ [][cbTick' # cbTick => lastCb'.progress >= lastCb.progress]_vars
    /\ []((stpc = "done" /\ stret = "nil" /\ hasCallback) => lastCb.progress = 100)

\* C5: the 2x-expected-duration timeout bounds the poll loop: the loop never
\* waits for another tick once the elapsed time exceeds twice the expected
\* duration.
C5_LoopBounded ==
    stpc = "select" => elapsed <= expectedMinutes * 120

\* C6: a tick that ends with the elapsed time above twice the expected
\* duration and without a terminal status returns the timeout error, and
\* the timeout error is returned only with the elapsed time above it.
C6_TimeoutExact ==
    /\ [][(TickEnds /\ elapsed > expectedMinutes * 120 /\ lastTick' # "terminal") =>
             (stpc' = "done" /\ stret' = "timed out")]_vars
    /\ [](stret = "timed out" => elapsed > expectedMinutes * 120)

\* C7 as stated: once ctx is cancelled during polling there is no further
\* status query and no further callback, and the call returns ctx's error.
C7_AsStated ==
    [][(cancelled /\ stpc \in { "select", "query" }) =>
          /\ cbTick' = cbTick
          /\ elapsed' = elapsed
          /\ (stpc' = "done" => stret' = "context canceled")]_vars

\* C7 amended: when ctx is cancelled while the loop waits in its select with
\* no tick ready, the call returns ctx's error at once, with no further
\* status query and no further callback.  (A tick in progress is finished,
\* callback included, and a tick that is ready together with ctx.Done() may
\* be taken.)
C7_CancelWhileWaiting ==
    [][(cancelled /\ stpc = "select" /\ ~ tickPending) =>
          /\ stpc' = "done"
          /\ stret' = "context canceled"
          /\ cbTick' = cbTick
          /\ lastCb' = lastCb
          /\ elapsed' = elapsed
          /\ pc'[Poller] = "idle"]_vars

\* C7 witness: the loop has polled, was cancelled and returned ctx's error
C7_Witness ==
    /\ stpc = "done"
    /\ stret = "context canceled"
    /\ cancelled
    /\ lastTick = "progress"
    /\ ~ tickPending

Keywords == { "completed", "aborted", "interrupted" }
StatusKeywords == [ st \in StatusTexts |-> { k \in Keywords : Contains(ToLower(st), k) } ]

\* C8: the tick whose status query succeeds with a status text that
\* contains, in any case, "completed", "aborted" or "interrupted" invokes the
\* callback (when there is one) once, with 100 and "Self-test <outcome>" for
\* an outcome the text contains, and returns nil; the returned call polls
\* and calls back no more.
C8_TerminalStatusEndsLoop ==
    /\ [][(TickEnds /\ lastStatus' # NoStatus /\ StatusKeywords[lastStatus'] # {}) =>
             /\ stpc' = "done"
             /\ stret' = "nil"
             /\ IF hasCallback
                THEN /\ cbTick' # cbTick
                     /\ lastCb'.progress = 100
                     /\ lastCb'.msg \in { "Self-test " \o k : k \in StatusKeywords[lastStatus'] }
                ELSE cbTick' = cbTick /\ lastCb' = lastCb]_vars
    /\ [][stpc = "done" => UNCHANGED << stpc, stret, elapsed, cbTick, lastCb >>]_vars

\* C8 witness: the loop returned on an upper-case "ABORTED" status after
\* the callback got 100 and "Self-test aborted"
C8_Witness ==
    /\ stpc = "done"
    /\ stret = "nil"
    /\ lastStatus = "ABORTED by host"
    /\ hasCallback
    /\ lastCb.progress = 100
    /\ lastCb.msg = "Self-test aborted"

\* C9: a progress value derived from the elapsed time is at most 95.
C9_ElapsedProgressCapped ==
    lastCb.source = "elapsed" => (lastCb.progress >= 0 /\ lastCb.progress <= 95)

\* C9 witness: the elapsed time has passed the expected duration and the
\* callback got 95
C9_Witness ==
    /\ lastCb.source = "elapsed"
    /\ lastCb.progress = 95
    /\ elapsed > expectedMinutes * 60
    /\ stpc = "select"

LoadEnds(g) == slpc[g] = "load" /\ slpc'[g] # "load"
StoreEnds(g) == slpc[g] = "store" /\ slpc'[g] # "store"

\* C12 as stated: with an entry stored by a call of severity "error" made at
\* time t, a call made at a time up to and including t + TTL_error returns
\* false and a call made after it returns true.
C12_AsStated ==
    [][\A g \in Loggers :
          LET key == MsgHash[slMsg[g]]
          IN  (LoadEnds(g) /\ key \in DOMAIN recorded /\ recorded[key].severity = "error") =>
                  IF slNow[g] <= recorded[key].at + msgCacheTTLError
                  THEN slRet'[g] = "false"
                  ELSE slpc'[g] = "store"]_vars

\* C12 amended: with an entry stored by a call of severity "error" made at
\* time t, a call made before t + TTL_error returns false, and a call made at
\* t + TTL_error or later stores a new entry and returns true.
C12_ErrorTTLBoundary ==
    [][\A g \in Loggers :
          LET key == MsgHash[slMsg[g]]
          IN  /\ (LoadEnds(g) /\ key \in DOMAIN recorded /\ recorded[key].severity = "error") =>
                     IF slNow[g] < recorded[key].at + msgCacheTTLError
                     THEN slpc'[g] = "idle" /\ slRet'[g] = "false"
                     ELSE slpc'[g] = "store"
              /\ StoreEnds(g) => slRet'[g] = "true"]_vars

\* C12 witness: a call made exactly at t + TTL_error has found the "error"
\* entry expired and is about to store and return true
C12_Witness ==
    \E g \in Loggers :
        LET key == MsgHash[slMsg[g]]
        IN  /\ slpc[g] = "store"
            /\ key \in DOMAIN recorded
            /\ recorded[key].severity = "error"
            /\ slNow[g] = recorded[key].at + msgCacheTTLError

\* C13: a call for a text whose entry is unexpired at the call's time, made
\* with a severity other than the one the entry was stored with, returns
\* false and leaves the entry and its expiry as they were.
C13_SeverityChangeKeepsExpiry ==
    [][\A g \in Loggers :
          LET key == MsgHash[slMsg[g]]
          IN  (/\ LoadEnds(g)
               /\ key \in DOMAIN entries
               /\ slNow[g] < entries[key].expiresAt
               /\ slSeverity[g] # recorded[key].severity) =>
                  /\ slpc'[g] = "idle"
                  /\ slRet'[g] = "false"
                  /\ entries' = entries]_vars

\* C13 witness: a call of severity "error" is at the lookup of a text whose
\* unexpired entry was stored with severity "information"
C13_Witness ==
    \E g \in Loggers :
        LET key == MsgHash[slMsg[g]]
        IN  /\ slpc[g] = "load"
            /\ slSeverity[g] = "error"
            /\ key \in DOMAIN entries
            /\ recorded[key].severity = "information"
            /\ slNow[g] > recorded[key].at
            /\ slNow[g] < entries[key].expiresAt

(***************************************************************************)
(* Further properties of the device-type resolver (SpecResolver).          *)
(***************************************************************************)
NamedClasses == { "named", "namederr" }
RetryEnds(g) == pc[g] = "retry" /\ pc'[g] = "idle"

\* C14: the cache entry of a device path is written at most once: a retry
\* that writes finds no entry for its path, and an entry once present keeps
\* its value.
C14_WrittenAtMostOnce ==
    /\ [][\A p \in DOMAIN deviceTypeCache :
            p \in DOMAIN deviceTypeCache' /\ deviceTypeCache'[p] = deviceTypeCache[p]]_vars
    /\ [][\A g \in Callers :
            (RetryEnds(g) /\ retryClass'[g] \in NamedClasses) =>
                path[g] \notin DOMAIN deviceTypeCache]_vars

\* C15 as stated: the cache changes only in the step of a retry whose
\* command succeeded and printed a non-empty device name.
C15_AsStated ==
    [][deviceTypeCache' # deviceTypeCache =>
          \E g \in Callers : RetryEnds(g) /\ retryClass'[g] = "named"]_vars

\* C15 amended: the cache changes only in the step of a retry whose output
\* parsed and names a device, whether or not the command exited with an
\* error, and the change is the entry path -> device type of that retry.
C15_WriteOnlyAfterNamedRetry ==
    [][deviceTypeCache' # deviceTypeCache =>
          \E g \in Callers :
              /\ RetryEnds(g)
              /\ retryClass'[g] \in NamedClasses
              /\ ret'[g].err = "nil"
              /\ ret'[g].info.name # ""
              /\ path[g] \in DOMAIN deviceTypeCache'
              /\ deviceTypeCache'[path[g]] = devType[g]
              /\ \A k \in DOMAIN deviceTypeCache' \ { path[g] } :
                    k \in DOMAIN deviceTypeCache /\ deviceTypeCache'[k] = deviceTypeCache[k]]_vars

\* C15 witness: a retry whose command exited with an error but named the
\* device has returned, and its path is cached
C15_Witness ==
    \E g \in Callers :
        /\ pc[g] = "idle"
        /\ retryClass[g] = "namederr"
        /\ path[g] \in DOMAIN deviceTypeCache

\* the identifier a failure message carries, read off the message texts
IdOfMessages(msgs) ==
    IF \E i \in 1..Len(msgs) : msgs[i] = BridgeKnownMsg THEN "usb:0x152d:0x2329"
    ELSE IF \E i \in 1..Len(msgs) : msgs[i] = BridgeUnknownMsg THEN "usb:0x048d:0x1234"
    ELSE ""

\* C17: a call about to retry uses the knowledge-base parameter of the
\* vendor:product identifier of its failure message when the knowledge base
\* has that identifier, and 'sat' otherwise.
C17_RetryTypeFromKnowledgeBase ==
    \A g \in Callers :
        pc[g] = "retry" =>
            LET id == IdOfMessages(first[g].smartctl.messages)
            IN  /\ bridgeId[g] = id
                /\ devType[g] = IF id \in DOMAIN DrivedbAddendum
                                THEN DrivedbAddendum[id] ELSE "sat"

\* C17 witness: one call retries with the knowledge base's 'usbjmicron'
\* while another retries with the default
C17_Witness ==
    \E g, h \in Callers :
        /\ pc[g] = "retry" /\ devType[g] = "usbjmicron"
        /\ pc[h] = "retry" /\ devType[h] = "sat"

\* C18: only a call whose failed output carries the bridge signature and
\* that had no cached type reaches the fallback and the retry; a call that
\* finds a type cached at the check returns after its one command; a second
\* command is run by the retry step only.
C18_NoRetryWithoutMismatch ==
    /\ [](\A g \in Callers :
            pc[g] \in { "hasCached", "lookupKB", "retry" } =>
                /\ HasBridgeMsg(first[g].smartctl)
                /\ execs[g] = 1
                /\ pc[g] # "hasCached" => args[g] = NoType)
    /\ [][\A g \in Callers :
            /\ (pc[g] = "hasCached" /\ path[g] \in DOMAIN deviceTypeCache) =>
                   (pc'[g] = "idle" /\ execs'[g] = 1) \/ pc'[g] = "hasCached"
            /\ (execs'[g] = 2 /\ execs[g] # 2) => pc[g] = "retry"
            /\ (pc[g] = "exec1" /\ pc'[g] = "idle") => execs'[g] = 1]_vars

\* C18 witness: one call has returned 'SMART Not Supported' after one
\* command whose output had a message but not the signature, another after
\* one command that failed with the signature for a cached path
C18_Witness ==
    \E g, h \in Callers :
        /\ pc[g] = "idle" /\ execs[g] = 1 /\ ret[g].err = "SMART Not Supported"
        /\ ret[g].info.smartctl.messages = << AdvisoryMsg >>
        /\ pc[h] = "idle" /\ execs[h] = 1 /\ ret[h].err = "SMART Not Supported"
        /\ HasBridgeMsg(ret[h].info.smartctl)
        /\ path[h] \in DOMAIN deviceTypeCache

(***************************************************************************)
(* Further properties of the self-test calls (SpecSelfTest).               *)
(***************************************************************************)
ClaimedTypes == { "short", "long", "conveyance", "offline" }
TypeListed(info, t) == \E i \in 1..Len(info.available) : info.available[i] = t
CapsErrors ==
    { "failed to get self-test info",
      "self-tests are not supported by this device",
      "test type is not available for this device" }

\* AbortSelfTest, which takes no test type, is the call under way or returned
AbortCalled == "-X" \in issued

\* C19: a RunSelfTest or RunSelfTestWithProgress call with a test type
\* outside short, long, conveyance, offline returns the invalid-type error
\* in its first step, having invoked no command and no callback, and stays
\* returned.
C19_InvalidTypeRejected ==
    /\ [](testType \notin ClaimedTypes /\ stpc # "idle" /\ ~ AbortCalled =>
              /\ stpc = "done"
              /\ stret = "invalid test type"
              /\ issued = {}
              /\ lastCb = NoCb /\ ~ cbTick
              /\ lastTick = "none" /\ elapsed = 0
              /\ pc[Poller] = "idle")
    /\ [][stpc = "done" => stpc' = "done" /\ issued' = issued /\ lastCb' = lastCb]_vars

\* C19 witness: a call with the type 'extended' has returned the error
C19_Witness ==
    /\ stpc = "done"
    /\ testType = "extended"
    /\ stret = "invalid test type"

\* C20: RunSelfTestWithProgress issues the start command only from the
\* step after a capability query that succeeded and listed the requested
\* type; a capability query that failed, listed nothing or did not list the
\* type ends the call with an error, with the capability query as the only
\* command, no callback and no poll.
C20_StartOnlyWhenListed ==
    /\ [](stpc = "start" =>
              /\ TypeListed(selfTestInfo, testType)
              /\ issued = { "-c" }
              /\ lastCb = NoCb)
    /\ [][(stpc = "caps" /\ stpc' # "caps") =>
              /\ issued' = { "-c" }
              /\ lastCb' = NoCb /\ cbTick' = cbTick
              /\ elapsed' = 0 /\ pc'[Poller] = "idle"
              /\ IF TypeListed(selfTestInfo', testType)
                 THEN stpc' = "start"
                 ELSE stpc' = "done" /\ stret' \in CapsErrors]_vars
    /\ [][("-t" \in issued' /\ "-t" \notin issued /\ "-c" \in issued') => stpc = "start"]_vars
    /\ [][stpc = "done" => stpc' = "done" /\ issued' = issued /\ cbTick' = cbTick]_vars

\* C20 witness: the device lists tests but not the requested 'conveyance',
\* and the call has returned the error after the capability query alone
C20_Witness ==
    /\ stpc = "done"
    /\ testType = "conveyance"
    /\ stret = "test type is not available for this device"
    /\ Len(selfTestInfo.available) > 0
    /\ issued = { "-c" }
    /\ hasCallback

(***************************************************************************)
(* The cache lock (SpecLocks).                                             *)
(***************************************************************************)
\* C16: a goroutine that is reading the cache map holds the read lock, one
\* that is writing it holds the write lock alone, a writer never overlaps
\* a reader or another writer, and the map changes only in the step of the
\* goroutine holding the write lock.
C16_CacheAccessUnderLock ==
    /\ [](\A g \in Callers :
            /\ pc[g] \in ReadSections => g \in mu.readers /\ mu.writer = NoWriter
            /\ pc[g] \in WriteSections => mu.writer = g /\ mu.readers = {}
            /\ \A h \in Callers \ { g } :
                  pc[g] \in WriteSections => pc[h] \notin ReadSections \cup WriteSections)
    /\ [][deviceTypeCache' # deviceTypeCache =>
            \E g \in Callers : pc[g] \in WriteSections /\ mu.writer = g /\ mu.readers = {}]_vars

\* C16 witness: one goroutine is writing the entry of a path while another,
\* whose first command for the same path failed with the bridge message,
\* waits for the read lock of its hasCached check
C16_Witness ==
    \E g, h \in Callers :
        /\ pc[g] = "write618"
        /\ pc[h] = "rlock593"
        /\ path[g] = path[h]

(***************************************************************************)
(* Further properties of the self-test calls and of the message cache.     *)
(***************************************************************************)
ProgressCommands == { "-c", "-t", "-a" }
ProgressPositions == { "caps", "start", "select", "query" }

\* C21: a RunSelfTestWithProgress call, also one ended by cancellation or
\* timeout, invokes only the capability query, the start command and
\* status queries; the abort command is invoked by a call of AbortSelfTest
\* only; the start command is invoked once, by the step after the
\* capability query.
C21_NeverAborts ==
    /\ []((stpc \in ProgressPositions \/ "-c" \in issued) => issued \subseteq ProgressCommands)
    /\ [](stpc = "start" => "-t" \notin issued)
    /\ [][("-X" \in issued' /\ "-X" \notin issued) => (stpc = "idle" /\ issued' = { "-X" })]_vars
    /\ [][("-t" \in issued' /\ "-t" \notin issued) => stpc \in { "idle", "start" }]_vars
    /\ [][stpc = "done" => issued' = issued]_vars

\* C21 witness: a started and polled test whose call was ended by
\* cancellation
C21_Witness ==
    /\ stpc = "done"
    /\ stret = "context canceled"
    /\ "-t" \in issued /\ "-a" \in issued

(***************************************************************************)
(* Results of GetSMARTInfo (SpecResolver).                                 *)
(***************************************************************************)
Returns(g) == pc[g] # "idle" /\ pc'[g] = "idle"
ByName(info) == [err |-> IF info.name # "" THEN "nil" ELSE "SMART Not Supported", info |-> info]
ExecFailure == [err |-> "failed to get SMART info", info |-> NoInfo]

\* C22 as stated: a call whose first command exited with an error returns
\* the info parsed from that command's JSON output, with nil for a non-empty
\* device name and 'SMART Not Supported' for an empty one, and returns no
\* info and the execution error when the output is empty or not JSON.
C22_AsStated ==
    [][\A g \in Callers :
          (Returns(g) /\ firstOut'[g].err) =>
              IF firstOut'[g].body = "json"
              THEN /\ ret'[g] = ByName(ret'[g].info)
                   /\ ret'[g].info.parsed
                   /\ pc[g] # "exec1" => ret'[g].info = first[g]
              ELSE ret'[g] = ExecFailure]_vars

\* C22 amended: as above, except that a call whose retry printed JSON naming
\* the device returns the retry's info with a nil error.
C22_FailedCommandResult ==
    [][\A g \in Callers :
          (Returns(g) /\ firstOut'[g].err) =>
              IF firstOut'[g].body = "json"
              THEN /\ ret'[g] = ByName(ret'[g].info)
                   /\ ret'[g].info.parsed
                   /\ pc[g] # "exec1" =>
                         IF pc[g] = "retry" /\ retryClass'[g] \in NamedClasses
                         THEN ret'[g].err = "nil" /\ execs'[g] = 2
                         ELSE ret'[g].info = first[g]
              ELSE ret'[g] = ExecFailure]_vars

\* C22 witness: one call returned the parsed info and nil after a single
\* command that exited with an error, another the parsed info and 'SMART
\* Not Supported'
C22_Witness ==
    \E g, h \in Callers :
        /\ pc[g] = "idle" /\ firstOut[g] = [err |-> TRUE, body |-> "json"]
        /\ execs[g] = 1 /\ ret[g].err = "nil" /\ ret[g].info.name # ""
        /\ pc[h] = "idle" /\ firstOut[h] = [err |-> TRUE, body |-> "json"]
        /\ execs[h] = 1 /\ ret[h].err = "SMART Not Supported" /\ ret[h].info.parsed

(***************************************************************************)
(* Expiry of message-cache entries (SpecCache).                            *)
(***************************************************************************)
KeyOf(g) == MsgHash[slMsg[g]]
ClaimedTTL(severity) ==
    IF severity = "information" THEN msgCacheTTLInformation
    ELSE IF severity = "warning" THEN msgCacheTTLWarning
    ELSE IF severity = "error" THEN msgCacheTTLError
    ELSE msgCacheTTLDefault

\* C23: a lookup that finds an expired entry goes on to the store exactly as
\* one that finds no entry, leaving the cache alone; the store returns true
\* and replaces the entry of the text, and no other entry, with one whose
\* expiry lies after the time of the call.
C23_ExpiredLikeAbsent ==
    [][\A g \in Loggers :
          /\ (LoadEnds(g) /\ (KeyOf(g) \notin DOMAIN entries
                               \/ slNow[g] >= entries[KeyOf(g)].expiresAt)) =>
                 /\ slpc'[g] = "store"
                 /\ entries' = entries
                 /\ slMsg'[g] = slMsg[g] /\ slSeverity'[g] = slSeverity[g] /\ slNow'[g] = slNow[g]
          /\ StoreEnds(g) =>
                 /\ slRet'[g] = "true"
                 /\ KeyOf(g) \in DOMAIN entries'
                 /\ entries'[KeyOf(g)].expiresAt > slNow[g]
                 /\ recorded'[KeyOf(g)] = [at |-> slNow[g], severity |-> slSeverity[g]]
                 /\ \A k \in DOMAIN entries' \ { KeyOf(g) } :
                        k \in DOMAIN entries /\ entries'[k] = entries[k]]_vars

\* C23 witness: a call is about to store over the entry it found expired
C23_Witness ==
    \E g \in Loggers :
        /\ slpc[g] = "store"
        /\ KeyOf(g) \in DOMAIN entries
        /\ slNow[g] >= entries[KeyOf(g)].expiresAt

\* C24: the entry a call records expires at the time of that call plus the
\* information, warning or error constant for those severities and the
\* default constant for any other severity.
C24_ExpiryIsCallTimePlusTTL ==
    [][\A g \in Loggers :
          StoreEnds(g) =>
              /\ KeyOf(g) \in DOMAIN entries'
              /\ entries'[KeyOf(g)].expiresAt = slNow[g] + ClaimedTTL(slSeverity[g])]_vars

\* C24 witness: an entry recorded with the empty severity at a time after
\* the start, expiring the default TTL later
C24_Witness ==
    \E k \in DOMAIN entries :
        /\ recorded[k].severity = ""
        /\ recorded[k].at > 0
        /\ entries[k].expiresAt = recorded[k].at + msgCacheTTLDefault

(***************************************************************************)
(* Durations and progress of a self-test (SpecSelfTest).                   *)
(***************************************************************************)
\* the polling minutes a capability output reports for a test type
ReportedMinutes(c, t) ==
    IF ~ (c.ata /\ c.polling) THEN 0
    ELSE IF t = "short" THEN c.short
    ELSE IF t = "long" THEN c.extended
    ELSE IF t = "conveyance" THEN c.pconveyance
    ELSE 0
FixedMinutes(t) ==
    IF t = "short" THEN 2 ELSE IF t = "long" THEN 120
    ELSE IF t = "conveyance" THEN 5 ELSE 10

\* C25: the expected duration of a started test is the polling minutes the
\* capability output reports for the requested type when positive, else
\* 2, 120, 5 or 10 minutes for short, long, conveyance, offline; the poll
\* loop never changes it.
C25_ExpectedDuration ==
    /\ [][(stpc = "start" /\ stpc' = "select") =>
              expectedMinutes' = IF ReportedMinutes(capsOut, testType) > 0
                                 THEN ReportedMinutes(capsOut, testType)
                                 ELSE FixedMinutes(testType)]_vars
    /\ [][(stpc \in { "select", "query" }) => (expectedMinutes' = expectedMinutes)]_vars

\* C25 witness: a long test started on a device that reports 90 minutes for
\* it, and so waits with 90 minutes expected
C25_Witness ==
    /\ stpc = "select"
    /\ testType = "long"
    /\ expectedMinutes = 90

(***************************************************************************)
(* The drivedb loader (SpecLoader).                                        *)
(***************************************************************************)
\* the identifiers each model pattern stands for, expanded by hand
ClaimedKeys ==
    [ r \in ModelRegexps |->
        CASE r = "0x152d:0x05(7[789]|80)" ->
                 { "usb:0x152d:0x0577", "usb:0x152d:0x0578", "usb:0x152d:0x0579",
                   "usb:0x152d:0x0580" }
          [] r = "0x152d:0x0562" -> { "usb:0x152d:0x0562" }
          [] r = "0x0BDA:0x9201" -> { "usb:0x0bda:0x9201" }
          [] r = "0x04e8:0x(5f05|6032)" -> { "usb:0x04e8:0x5f05", "usb:0x04e8:0x6032" }
          [] r = "0x059f:0x10(2[0-2]|31)" ->
                 { "usb:0x059f:0x1020", "usb:0x059f:0x1021", "usb:0x059f:0x1022",
                   "usb:0x059f:0x1031" } ]
ClaimedType == [ p \in Presets |-> IF p = "-d sat" THEN "sat"
                                   ELSE IF p = "-d usbjmicron,x" THEN "usbjmicron" ELSE "" ]

\* C26: processing a USB entry that names a device type maps exactly the
\* lower-cased identifiers its product-ID pattern stands for, one per
\* combination of its alternation, to that type, and changes nothing else.
C26_AlternationsExpanded ==
    [][loadPos' = loadPos + 1 =>
          LET e == drivedbH[loadPos + 1]
              keys == IF e.modelfamily = "USB: JMicron; " /\ ClaimedType[e.presets] # ""
                      THEN ClaimedKeys[e.modelregexp] ELSE {}
          IN  loadCache' = [ k \in DOMAIN loadCache \cup keys |->
                               IF k \in keys THEN ClaimedType[e.presets] ELSE loadCache[k] ]]_vars

(***************************************************************************)
(* Failures, progress sources and terminal states of the poll loop         *)
(* (SpecSelfTest).                                                         *)
(***************************************************************************)
StatusQueryErrors ==
    { "failed to get SMART info", "failed to parse SMART info", "SMART Not Supported" }

\* C27: a failure of a command reaches the caller of
\* RunSelfTestWithProgress: a failed capability query or start command ends
\* the call with its error, and a tick whose status query failed ends the
\* call with the error of that query.
C27_FailuresPropagated ==
    /\ [][(stpc = "start" /\ stpc' = "done") => stret' = "failed to start self-test"]_vars
    /\ [][(stpc = "caps" /\ stpc' = "done") => stret' \in CapsErrors]_vars
    /\ [][(TickEnds /\ lastTick' = "continue") =>
              (stpc' = "done" /\ stret' \in StatusQueryErrors)]_vars


(***************************************************************************)
(* C28: on every poll that reports progress, the value handed to the       *)
(* callback comes from the highest-priority source present: the remaining  *)
(* percentage the device printed with its status, turned into a completed  *)
(* percentage; failing that attribute 231 capped at 100; failing that the  *)
(* elapsed-time estimate.                                                  *)
(***************************************************************************)
ProgressReported == TickEnds /\ cbTick' # cbTick /\ lastCb'.source # "terminal"

C28_ProgressSourcePriority ==
    [][ProgressReported =>
         IF lastRemaining' # NoRemaining
         THEN lastCb'.progress = 100 - lastRemaining'
         ELSE \/ lastCb'.source = "attr" /\ lastCb'.progress \in 0..100
              \/ /\ lastCb'.source = "elapsed"
                 /\ lastCb'.progress = ElapsedProgress(elapsed, expectedMinutes)]_vars


(***************************************************************************)
(* C29: with no explicit progress signal, the value reported at elapsed    *)
(* time e for an expected duration of E seconds is min(95, floor(100*e/E)):*)
(* it is 95 exactly from e = 0.95*E on and never 100.  For the default     *)
(* short test (E = 120 s, polled every 5 s) that is 95 from 114 s on.      *)
(***************************************************************************)
ClaimedEstimate(e, E) == IF (100 * e) \div E < 95 THEN (100 * e) \div E ELSE 95

\* the polls of a short test of default duration, at their elapsed times
ShortDefaultSeconds == ExpectedMinutes("short", << >>) * 60
ShortDefaultPolls ==
    { k * TickSeconds : k \in 1..((2 * ShortDefaultSeconds) \div TickSeconds + MaxOverTicks) }

C29_ElapsedEstimate ==
    /\ [][(ProgressReported /\ lastCb'.source = "elapsed") =>
            /\ lastCb'.progress = ClaimedEstimate(elapsed, expectedMinutes * 60)
            /\ lastCb'.progress = 95 <=> 100 * elapsed >= 95 * expectedMinutes * 60
            /\ lastCb'.progress # 100]_vars
    /\ ShortDefaultSeconds = 120
    /\ \A e \in ShortDefaultPolls :
          /\ ElapsedProgress(e, ExpectedMinutes("short", << >>)) = ClaimedEstimate(e, 120)
          /\ ElapsedProgress(e, ExpectedMinutes("short", << >>)) = 95 <=> e >= 114
          /\ ElapsedProgress(e, ExpectedMinutes("short", << >>)) # 100

\* C29 witness: a poll without attribute 231 reported the estimate at the
\* first tick at which it reads 95 (0.95 of the expected duration has just
\* passed), and the loop goes on
C29_Witness ==
    /\ stpc = "select"
    /\ lastTick = "progress"
    /\ lastCb.source = "elapsed"
    /\ lastCb.progress = 95
    /\ 100 * elapsed >= 95 * expectedMinutes * 60
    /\ 100 * (elapsed - TickSeconds) < 95 * expectedMinutes * 60


(***************************************************************************)
(* C30: an invocation that started a test reaches at most one of the       *)
(* terminal states Completed, Aborted, Interrupted, TimedOut, Cancelled,   *)
(* and once it has reached one it performs no further status query and no  *)
(* further callback.  The step that reaches the state is the end of a tick *)
(* (its callback, made before the return, is the last one) or the select   *)
(* that takes the cancellation (no callback).                              *)
(***************************************************************************)
TerminalStateNames == { "Completed", "Aborted", "Interrupted", "TimedOut", "Cancelled" }

\* the final callback message that goes with a state reached on a status
StateMessage ==
    [ n \in { "Completed", "Aborted", "Interrupted" } |->
        CASE n = "Completed" -> "Self-test completed"
          [] n = "Aborted" -> "Self-test aborted"
          [] n = "Interrupted" -> "Self-test interrupted" ]

InTerminalState(n) ==
    CASE n = "TimedOut"  -> stret = "timed out"
      [] n = "Cancelled" -> stret = "context canceled"
      [] OTHER -> /\ stret = "nil"
                  /\ lastTick = "terminal"
                  /\ StatusTerminalMessage[lastStatus] = StateMessage[n]

ReachedStates == { n \in TerminalStateNames : InTerminalState(n) }

C30_OneTerminalState ==
    /\ [](Cardinality(ReachedStates) <= 1)
    /\ [](ReachedStates # {} => (stpc = "done" /\ pc[Poller] = "idle" /\ "-t" \in issued))
    /\ [][ReachedStates # {} =>
            /\ ReachedStates' = ReachedStates
            /\ UNCHANGED << stpc, stret, issued, execs, pc, elapsed, cbTick, lastCb >>]_vars
    /\ [][(ReachedStates = {} /\ ReachedStates' # {}) =>
            /\ stpc \in { "select", "query" }
            /\ cbTick' # cbTick =>
                  /\ hasCallback
                  /\ IF lastTick' = "terminal"
                     THEN /\ lastCb'.progress = 100
                          /\ lastCb'.msg = StatusTerminalMessage[lastStatus']
                          /\ ReachedStates' \subseteq { "Completed", "Aborted", "Interrupted" }
                     ELSE ReachedStates' = { "TimedOut" }
            /\ "Cancelled" \in ReachedStates' => cbTick' = cbTick]_vars

\* C30 witness: the context was cancelled while a status query was under
\* way, that query found the test completed, and the call ended in the one
\* state Completed after its callback
C30_Witness ==
    /\ stpc = "done"
    /\ cancelled
    /\ hasCallback
    /\ ReachedStates = { "Completed" }
    /\ lastCb.progress = 100


(***************************************************************************)
(* C31: the cache lock is held only for the map access itself.  A          *)
(* goroutine holds the read or write lock only in the step that reads or   *)
(* writes the map: never where it runs a command (first attempt or retry), *)
(* never while it waits for the lock, and never outside GetSMARTInfo,      *)
(* which is where the poll loop waits for its ticker or the cancellation.  *)
(***************************************************************************)
HoldsLock(g) == g \in mu.readers \/ mu.writer = g
CommandPositions == { "exec1", "retry" }

IsKnowledgeBaseKey(k) == Len(k) >= 4 /\ SubSeq(k, 1, 4) = "usb:"

C33_KeysNeverInterfere ==
    /\ [][\A g \in Callers :
            (pc[g] = "idle" /\ pc'[g] = "exec1" /\ path'[g] \notin resolved) =>
                args'[g] = NoType]_vars
    /\ []({ k \in DOMAIN deviceTypeCache : IsKnowledgeBaseKey(k) } = DOMAIN DrivedbAddendum)
    /\ [](\A k \in DOMAIN DrivedbAddendum : deviceTypeCache[k] = DrivedbAddendum[k])


(***************************************************************************)
(* C34: shouldLog's result for a text depends only on earlier calls for    *)
(* that text.  The entry of a text (its presence and its expiry) changes   *)
(* only in the store of a call for that very text; a lookup's result is    *)
(* fixed by the entry of its own text and the call's time, whatever the    *)
(* severity; and the cache holds at most one entry per text, under the     *)
(* text's hash.                                                            *)
(***************************************************************************)
NoEntry == [expiresAt |-> -1]
EntryOf(e, m) == IF MsgHash[m] \in DOMAIN e THEN e[MsgHash[m]] ELSE NoEntry

ClaimedAvailable(c) ==
    (IF c.ata /\ c.caps /\ c.selfTests THEN << "short", "long" >> ELSE << >>)
    \o (IF c.ata /\ c.caps /\ c.conveyance THEN << "conveyance" >> ELSE << >>)
    \o (IF c.ata /\ c.caps /\ c.offline THEN << "offline" >> ELSE << >>)
    \o (IF c.nvmeCtrl \/ c.nvmeOpt THEN << "short" >> ELSE << >>)

C35_EachTypeListedOnce ==
    stpc = "start" =>
        /\ selfTestInfo.available = ClaimedAvailable(capsOut)
        /\ \A i, j \in 1..Len(selfTestInfo.available) :
              selfTestInfo.available[i] = selfTestInfo.available[j] => i = j


(***************************************************************************)
(* C36: the callback gets progress 100 only on a tick that detected a      *)
(* terminal status (completed, aborted or interrupted); no in-progress     *)
(* callback carries 100.                                                   *)
(***************************************************************************)
C36_HundredOnlyOnTerminal ==
    [][(cbTick' # cbTick /\ lastCb'.progress = 100) =>
          /\ TickEnds
          /\ lastTick' = "terminal"
          /\ lastStatus' # NoStatus
          /\ StatusKeywords[lastStatus'] # {}]_vars


(***************************************************************************)
(* C37: of several concurrent shouldLog calls with the same text, none of  *)
(* which found an entry to suppress it, exactly one returns true: a call   *)
(* never returns true for a text that another call has, in the meantime,   *)
(* stored an entry for that is unexpired at this call's time.              *)
(***************************************************************************)
C37_OneConcurrentWinner ==
    [][\A g \in Loggers :
          (StoreEnds(g) /\ slRet'[g] = "true") =>
              ~ EntryUnexpired(entries, MsgHash[slMsg[g]], slNow[g])]_vars


(***************************************************************************)
(* C38: a RunSelfTestWithProgress call whose context is cancelled before   *)
(* its select is first reached, with a valid type the device lists, still  *)
(* issues the capability query and the start command and invokes the       *)
(* callback once, with progress 0; it then performs no status query and    *)
(* returns the context's error.                                            *)
(***************************************************************************)
StartedUnderCancel == stpc = "select" /\ cancelled /\ elapsed = 0

C38_CancelledBeforeStart ==
    /\ [][(stpc \in { "caps", "start" } /\ cancelled /\ stpc' = "done") =>
             stret' # "context canceled"]_vars
    /\ [][(stpc = "start" /\ cancelled /\ stpc' = "select") =>
             /\ issued' = { "-c", "-t" }
             /\ ~ tickPending'
             /\ IF hasCallback
                THEN cbTick' # cbTick /\ lastCb'.progress = 0 /\ lastCb'.source = "started"
                ELSE cbTick' = cbTick]_vars
    /\ [][(StartedUnderCancel /\ ~ tickPending) =>
             /\ stpc' = "done"
             /\ stret' = "context canceled"
             /\ issued' = issued
             /\ cbTick' = cbTick /\ lastCb' = lastCb
             /\ pc' = pc /\ execs' = execs]_vars
    /\ [](stret = "context canceled" => (stpc = "done" /\ { "-c", "-t" } \subseteq issued))

\* C38 witness: a call with a callback whose context was cancelled before
\* the loop was entered (the context is looked at in the select only, so
\* the state is the same for a context cancelled before the call) has
\* returned the context's error after the capability query, the start
\* command and the progress-0 callback, without a status query
C38_Witness ==
    /\ stpc = "done"
    /\ stret = "context canceled"
    /\ hasCallback
    /\ issued = { "-c", "-t" }
    /\ lastCb.progress = 0 /\ lastCb.source = "started"
    /\ cbTick
    /\ elapsed = 0


(***************************************************************************)
(* C39: a poll that finds the self-test aborted or interrupted ends the    *)
(* call with a nil error exactly as one that finds it completed: the same  *)
(* return, the same progress 100, no further command; only the message     *)
(* handed to the callback tells the three apart.                           *)
(***************************************************************************)
C39_AbortedAndInterruptedReturnNil ==
    [][(TickEnds /\ lastStatus' # NoStatus /\ StatusKeywords[lastStatus'] # {}) =>
          /\ stpc' = "done"
          /\ stret' = "nil"
          /\ lastTick' = "terminal"
          /\ IF hasCallback
             THEN /\ cbTick' # cbTick
                  /\ lastCb'.progress = 100
                  /\ StatusKeywords[lastStatus'] = { "completed" } =>
                        lastCb'.msg = "Self-test completed"
                  /\ StatusKeywords[lastStatus'] = { "aborted" } =>
                        lastCb'.msg = "Self-test aborted"
                  /\ StatusKeywords[lastStatus'] = { "interrupted" } =>
                        lastCb'.msg = "Self-test interrupted"
             ELSE cbTick' = cbTick /\ lastCb' = lastCb]_vars

\* C39 witness: the device reported an interrupted test and the call has
\* returned nil after the callback got 100 and "Self-test interrupted"
C39_Witness ==
    /\ stpc = "done"
    /\ stret = "nil"
    /\ lastStatus = "Interrupted (host reset)"
    /\ lastCb = [progress |-> 100, msg |-> "Self-test interrupted", source |-> "terminal"]


(***************************************************************************)
(* C40: every key of the map the loader builds has the form                *)
(* usb:0xVVVV:0xPPPP, each of VVVV and PPPP being exactly four lower-case  *)
(* hexadecimal digits.                                                     *)
(***************************************************************************)
LowerHexDigits == "0123456789abcdef"
IsLowerHexRun(s, i, n) ==
    \A k \in i..(i + n - 1) :
        \E d \in 1..Len(LowerHexDigits) : CharAt(s, k) = CharAt(LowerHexDigits, d)

IsLoaderKey(k) ==
    /\ Len(k) = 17
    /\ SubSeq(k, 1, 6) = "usb:0x"
    /\ IsLowerHexRun(k, 7, 4)
    /\ SubSeq(k, 11, 13) = ":0x"
    /\ IsLowerHexRun(k, 14, 4)

C40_KeysWellFormed == \A k \in DOMAIN loadCache : IsLoaderKey(k)

====
